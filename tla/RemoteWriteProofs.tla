------------------------- MODULE RemoteWriteProofs -------------------------
(***************************************************************************)
(* What holds of the remote writer for any number of series, samples,      *)
(* receivers, compactions and faults: the types; that one routine runs     *)
(* while a receiver is configured; that nothing behind the position was    *)
(* skipped but in the three cases NothingSkipped names; that nothing is    *)
(* sent twice as long as nothing fails; and that the loop of writeRange    *)
(* cuts a range into the requests RemoteWrite takes, so that the writer    *)
(* with its loop implements it and has the same properties.                *)
(***************************************************************************)
EXTENDS WriteRange, FiniteSetTheorems, SequenceTheorems, WellFoundedInduction, TLAPS

\* A set of times that is not empty has a first and a last one.
LEMMA Least ==
  ASSUME NEW S \in SUBSET Nat, S # {}
  PROVE  MinOf(S) \in S /\ \A y \in S : MinOf(S) <= y
<1>1. PICK x \in S : \A y \in S : ~(<<y, x>> \in OpToRel(<, Nat))
  BY NatLessThanWellFounded, WFMin
<1>2. \A y \in S : x <= y
  <2> SUFFICES ASSUME NEW y \in S PROVE x <= y
    OBVIOUS
  <2>1. ~(y < x)
    BY <1>1 DEF OpToRel
  <2>2. QED
    BY <2>1
<1>3. QED
  BY <1>2 DEF MinOf

\* The same for the last one of a bounded set.
LEMMA Greatest ==
  ASSUME NEW n \in Nat, NEW S \in SUBSET (0..n), S # {}
  PROVE  MaxOf(S) \in S /\ \A y \in S : y <= MaxOf(S)
<1> DEFINE T == {n - y : y \in S}
<1>1. T \in SUBSET Nat /\ T # {}
  <2>1. \A y \in S : n - y \in Nat
    OBVIOUS
  <2>2. QED
    BY <2>1
<1>2. MinOf(T) \in T /\ \A y \in T : MinOf(T) <= y
  BY <1>1, Least
<1>3. PICK x \in S : MinOf(T) = n - x
  BY <1>2
<1>4. \A y \in S : y <= x
  <2> SUFFICES ASSUME NEW y \in S PROVE y <= x
    OBVIOUS
  <2>1. n - x <= n - y
    BY <1>2, <1>3
  <2>2. QED
    BY <2>1
<1>5. QED
  BY <1>4 DEF MaxOf

\* What is left of b after less than b is something.
LEMMA PositiveRest ==
  ASSUME NEW a \in Nat, NEW b \in Nat, a < b
  PROVE  b - a \in Nat /\ b - a # 0
OBVIOUS

\* The smaller of two times,
LEMMA PairMin ==
  ASSUME NEW a \in Nat, NEW b \in Nat
  PROVE  MinOf({a, b}) = IF a <= b THEN a ELSE b
BY Least

\* and the larger.
LEMMA PairMax ==
  ASSUME NEW a \in Nat, NEW b \in Nat
  PROVE  MaxOf({a, b}) = IF a <= b THEN b ELSE a
<1>1. \E n \in Nat : a <= n /\ b <= n
  OBVIOUS
<1>2. QED
  BY <1>1, Greatest

-----------------------------------------------------------------------------
\* The parts of TypeOK, kept one by one.
StoreOK ==
  /\ headMin \in Times /\ valid \in Times
  /\ samples \subseteq Samples
  /\ blocks \subseteq [min : Times, max : Times]
  /\ written \in 0..MaxBlocks /\ faults \in 0..MaxFaults

WriterOK ==
  /\ receiver \in Receivers \cup {NoReceiver}
  /\ client \in Receivers \cup {NoReceiver}
  /\ pc \in {"off", "config", "loop", "min", "blocks", "head", "read", "send", "store",
             "sleep"}
  /\ unsent \subseteq Samples
  /\ try \in 1..NumTries
  /\ accepted \subseteq Samples /\ refused \subseteq Samples /\ missed \subseteq Samples

\* Where a range begins, there is something after the position.
PositionOK ==
  /\ lastWrite \in Times /\ maxTSDB \in Times /\ from \in Times /\ to \in Times
  /\ file \in Times \cup {Torn}
  /\ pc = "min" => lastWrite < maxTSDB

FlagsOK == isRunning \in BOOLEAN /\ hadEmpty \in BOOLEAN /\ resent \in BOOLEAN

\* The blocks come before what the head takes, the head has a sample, and each
\* sample is in the head or in a block.
Covered ==
  /\ valid <= headMin
  /\ \A b \in blocks : b.min < b.max /\ b.max <= valid
  /\ samples # {} \/ blocks # {} => \E x \in samples : headMin <= x.time
  /\ \A x \in samples :
       headMin <= x.time \/ \E b \in blocks : b.min <= x.time /\ x.time < b.max

Done(x) == x \in accepted \cup refused \cup missed

\* What is before the position, before the range and before its end is done
\* with or missed, and no sample is between the blocks and the head.
Progress ==
  /\ NothingSkipped
  /\ file # Torn => file <= lastWrite
  /\ pc \in {"blocks", "head", "read"} => \A x \in samples : x.time < from => Done(x)
  /\ pc = "head" => \A x \in samples : x.time < headMin => Done(x)
  /\ pc \in {"send", "store"} =>
       \A x \in samples : x.time <= to => Done(x) \/ (pc = "send" /\ x \in unsent)

\* Without faults, what was sent is before the position, or in the range and
\* not to be sent any more.
SentOnce ==
  /\ pc \in {"blocks", "head", "read"} => lastWrite < from
  /\ pc \in {"send", "store"} => lastWrite <= to
  /\ pc \in {"min", "blocks", "head", "read"} => lastWrite < maxTSDB
  /\ pc = "send" => \A x \in unsent : lastWrite < x.time /\ x.time <= to
  /\ faults = 0 =>
       /\ ~resent
       /\ \A x \in accepted :
            \/ x.time <= lastWrite
            \/ pc \in {"send", "store"} /\ x.time <= to /\ x \notin unsent

\* MaxTimeOfHead is the time of the last sample.
LEMMA LastSample ==
  ASSUME StoreOK
  PROVE  /\ MaxTimeOfHead \in Times
         /\ \A x \in samples : x.time <= MaxTimeOfHead
         /\ MaxTimeOfHead # 0 => \E x \in samples : x.time = MaxTimeOfHead
<1> DEFINE S == {0} \cup {x.time : x \in samples}
<1>1. S \in SUBSET (0..MaxTime) /\ S # {}
  BY ConstantsAssumption DEF StoreOK, Samples, Times
<1>2. MaxOf(S) \in S /\ \A y \in S : y <= MaxOf(S)
  BY <1>1, Greatest, ConstantsAssumption
<1>3. QED
  BY <1>1, <1>2 DEF MaxTimeOfHead, Times

\* MinTimeOfStore is where the first block starts, or the head.
LEMMA FirstBlock ==
  ASSUME StoreOK
  PROVE  /\ MinTimeOfStore \in Times
         /\ \A b \in blocks : MinTimeOfStore <= b.min
         /\ blocks # {} => \E b \in blocks : MinTimeOfStore = b.min
<1>1. CASE blocks = {}
  BY <1>1 DEF StoreOK, MinTimeOfStore
<1>2. CASE blocks # {}
  <2> DEFINE S == {b.min : b \in blocks}
  <2>1. S \in SUBSET Nat /\ S # {} /\ S \subseteq Times
    BY <1>2 DEF StoreOK, Times
  <2>2. MinOf(S) \in S /\ \A y \in S : MinOf(S) <= y
    BY <2>1, Least
  <2>3. QED
    BY <1>2, <2>1, <2>2 DEF MinTimeOfStore
<1>3. QED
  BY <1>1, <1>2

\* Retention deletes one of the blocks, and what is before its end.
LEMMA Oldest ==
  ASSUME StoreOK, Retain
  PROVE  \E o \in blocks : blocks' = blocks \ {o} /\ samples' = {x \in samples : x.time
    >= o.max}
<1> DEFINE o == CHOOSE b \in blocks : b.min = MinTimeOfStore
<1>1. o \in blocks
  BY FirstBlock DEF Retain
<1>2. blocks' = blocks \ {o} /\ samples' = {x \in samples : x.time >= o.max}
  BY DEF Retain
<1>3. QED
  BY <1>1, <1>2

\* A compaction cuts the head before one of its samples.
LEMMA Cut ==
  ASSUME StoreOK, NEW cut \in Times, Compact(cut)
  PROVE  /\ blocks' = blocks \cup {[min |-> headMin, max |-> cut]} /\ samples' = samples
         /\ headMin < cut /\ cut <= headMin' /\ headMin' \in Times
         /\ \A x \in samples : x.time >= cut => headMin' <= x.time
         /\ \E x \in samples : headMin' <= x.time
<1> DEFINE later == {x.time : x \in {y \in samples : y.time >= cut}}
<1>1. later \in SUBSET Nat /\ later # {} /\ later \subseteq Times
  BY LastSample DEF Compact, StoreOK, Samples, Times
<1>2. MinOf(later) \in later /\ \A t \in later : MinOf(later) <= t
  BY <1>1, Least
<1>3. headMin' \in cut..MinOf(later)
  BY DEF Compact
<1>4. cut \in Nat /\ MinOf(later) \in Nat /\ MinOf(later) <= MaxTime
  BY <1>1, <1>2, ConstantsAssumption DEF Times
<1>5. headMin' \in Times /\ cut <= headMin' /\ headMin' <= MinOf(later)
  BY <1>3, <1>4, ConstantsAssumption DEF Times
<1>6. \A x \in samples : x.time >= cut => headMin' <= x.time
  <2> SUFFICES ASSUME NEW x \in samples, x.time >= cut PROVE headMin' <= x.time
    OBVIOUS
  <2>1. x.time \in later
    OBVIOUS
  <2>2. MinOf(later) <= x.time /\ x.time \in Nat
    BY <2>1, <1>1, <1>2
  <2>3. QED
    BY <2>2, <1>5, <1>4 DEF Times
<1>7. PICK x \in samples : x.time >= cut
  BY <1>1
<1>8. QED
  BY <1>5, <1>6, <1>7 DEF Compact, store

\* No sample is before the store's MinTime, which is not after the head's.
LEMMA MinTimeIsFirst ==
  ASSUME StoreOK, Covered
  PROVE  MinTimeOfStore <= headMin /\ \A x \in samples : MinTimeOfStore <= x.time
<1> USE DEF Times
<1>1. {MinTimeOfStore, headMin, valid} \subseteq Nat /\ \A x \in samples : x.time \in Nat
  BY FirstBlock DEF StoreOK, Samples
<1>2. \A b \in blocks : b.min \in Nat /\ b.max \in Nat /\ MinTimeOfStore <= b.min
  BY FirstBlock DEF StoreOK
<1>3. MinTimeOfStore <= headMin
  <2>1. CASE blocks = {}
    BY <1>1, <2>1 DEF MinTimeOfStore
  <2>2. CASE blocks # {}
    BY <1>1, <1>2, <2>2 DEF Covered
  <2>3. QED
    BY <2>1, <2>2
<1>4. QED
  BY <1>1, <1>2, <1>3 DEF Covered

\* A request is of samples not sent.
LEMMA RequestUnsent == Request \subseteq unsent
BY DEF Request

-----------------------------------------------------------------------------
\* The invariant holds before a receiver is configured.
LEMMA Initially == Init => StoreOK /\ WriterOK /\ PositionOK /\ FlagsOK /\ RunsWhileEnabled
<1> SUFFICES ASSUME Init PROVE StoreOK /\ WriterOK /\ PositionOK /\ FlagsOK /\
         RunsWhileEnabled
  OBVIOUS
<1> USE ConstantsAssumption DEF Init, Times
<1>1. StoreOK
  BY DEF StoreOK
<1>2. WriterOK
  BY DEF WriterOK
<1>3. PositionOK
  BY DEF PositionOK
<1>4. FlagsOK
  BY DEF FlagsOK
<1>5. RunsWhileEnabled
  BY DEF RunsWhileEnabled
<1>6. QED
  BY <1>1, <1>2, <1>3, <1>4, <1>5

\* Every step keeps the types of the store.
LEMMA StoreInductive == StoreOK /\ [Next]_vars => StoreOK'
<1> SUFFICES ASSUME StoreOK, [Next]_vars PROVE StoreOK'
  OBVIOUS
<1> USE ConstantsAssumption DEF StoreOK, Times, store, configVars, position, range, requests, sending
<1>3. ASSUME NEW s \in Series, NEW t \in Times \ {0}, AddMetric(s, t) PROVE StoreOK'
  <2>1. samples' \subseteq Samples
    BY <1>3 DEF AddMetric, Samples, Times
  <2>2. MinOf({headMin, t}) \in Times
    BY Least, PairMin
  <2>3. QED
    BY <1>3, <2>1, <2>2 DEF AddMetric
<1>4. ASSUME NEW cut \in Times, Compact(cut) PROVE StoreOK'
  <2>1. headMin' \in Times
    BY <1>4, Cut
  <2>2. QED
    BY <1>4, <2>1 DEF Compact
<1>5. CASE Retain
  BY <1>5 DEF Retain
<1>6. ASSUME NEW r \in Receivers \cup {NoReceiver}, Update(r) PROVE StoreOK'
  BY <1>6 DEF Update
<1>7. CASE GetConfig
  BY <1>7 DEF GetConfig
<1>8. CASE Loop
  BY <1>8 DEF Loop
<1>9. CASE ReadMin
  BY <1>9 DEF ReadMin
<1>10. CASE SkipToBlock
  BY <1>10 DEF SkipToBlock
<1>11. CASE SkipToHead
  BY <1>11 DEF SkipToHead
<1>12. CASE ReadRange
  BY <1>12 DEF ReadRange, Fault, InRange
<1>13. ASSUME NEW last \in BOOLEAN, MayEnd(last), Accepted(Request, last) PROVE StoreOK'
  BY <1>13 DEF Accepted, RequestDone, Arrives
<1>14. ASSUME NEW last \in BOOLEAN, MayEnd(last), Refused(Request, last) PROVE StoreOK'
  BY <1>14 DEF Refused, RequestDone, Fault
<1>15. CASE Failed(Request)
  BY <1>15 DEF Failed, RequestDone, Arrives, Fault
<1>16. CASE StorePosition
  BY <1>16 DEF StorePosition, Fault
<1>17. CASE Sleep
  BY <1>17 DEF Sleep
<1>18. CASE Restart
  BY <1>18 DEF Restart, Fault
<1>19. CASE UNCHANGED vars
  BY <1>19 DEF vars
<1>20. QED
  BY <1>3, <1>4, <1>5, <1>6, <1>7, <1>8, <1>9, <1>10, <1>11, <1>12, <1>13, <1>14, <1>15,
     <1>16, <1>17, <1>18, <1>19 DEF Next, Outside, Routine, SendRequest

\* Every step keeps the types of the writer.
LEMMA WriterInductive == StoreOK /\ WriterOK /\ [Next]_vars => WriterOK'
<1> SUFFICES ASSUME StoreOK, WriterOK, [Next]_vars PROVE WriterOK'
  OBVIOUS
<1> USE ConstantsAssumption DEF WriterOK, store, configVars, position, range, requests, sending
<1>3. ASSUME NEW s \in Series, NEW t \in Times \ {0}, AddMetric(s, t) PROVE WriterOK'
  <2>1. [series |-> s, time |-> t] \in Samples
    BY DEF Samples
  <2>2. missed' \subseteq Samples
    BY <1>3, <2>1 DEF AddMetric
  <2>3. QED
    BY <1>3, <2>2 DEF AddMetric
<1>4. ASSUME NEW cut \in Times, Compact(cut) PROVE WriterOK'
  BY <1>4 DEF Compact, StoreOK
<1>5. CASE Retain
  BY <1>5 DEF Retain
<1>6. ASSUME NEW r \in Receivers \cup {NoReceiver}, Update(r) PROVE WriterOK'
  BY <1>6 DEF Update
<1>7. CASE GetConfig
  BY <1>7 DEF GetConfig
<1>8. CASE Loop
  BY <1>8 DEF Loop
<1>9. CASE ReadMin
  BY <1>9 DEF ReadMin
<1>10. CASE SkipToBlock
  BY <1>10 DEF SkipToBlock
<1>11. CASE SkipToHead
  BY <1>11 DEF SkipToHead
<1>12. CASE ReadRange
  <2>1. InRange(from, to') \subseteq Samples
    BY DEF InRange, StoreOK
  <2>2. CutShort(InRange(from, to')) \subseteq SUBSET Samples
    BY <2>1 DEF CutShort
  <2>3. unsent' \subseteq Samples /\ missed' \subseteq Samples
    BY <1>12, <2>1, <2>2 DEF ReadRange
  <2>4. QED
    BY <1>12, <2>3 DEF ReadRange
<1>13. ASSUME NEW last \in BOOLEAN, MayEnd(last), Accepted(Request, last) PROVE WriterOK'
  BY <1>13, RequestUnsent DEF Accepted, RequestDone, Arrives
<1>14. ASSUME NEW last \in BOOLEAN, MayEnd(last), Refused(Request, last) PROVE WriterOK'
  BY <1>14, RequestUnsent DEF Refused, RequestDone
<1>15. CASE Failed(Request)
  <2>1. accepted' \in {accepted, accepted \cup Request} /\ UNCHANGED <<receiver, client,
          refused, missed>>
    BY <1>15 DEF Failed, Arrives
  <2>2. unsent' \subseteq Samples /\ try' \in 1..NumTries
    BY <1>15 DEF Failed, RequestDone
  <2>3. pc' \in {pc, "store", "send", "sleep"}
    BY <1>15 DEF Failed, RequestDone
  <2>4. QED
    BY <2>1, <2>2, <2>3, RequestUnsent
<1>16. CASE StorePosition
  BY <1>16 DEF StorePosition, Fault
<1>17. CASE Sleep
  BY <1>17 DEF Sleep
<1>18. CASE Restart
  BY <1>18 DEF Restart, Fault
<1>19. CASE UNCHANGED vars
  BY <1>19 DEF vars
<1>20. QED
  BY <1>3, <1>4, <1>5, <1>6, <1>7, <1>8, <1>9, <1>10, <1>11, <1>12, <1>13, <1>14, <1>15,
     <1>16, <1>17, <1>18, <1>19 DEF Next, Outside, Routine, SendRequest

\* Every step keeps the types of the position and the range.
LEMMA PositionInductive == StoreOK /\ WriterOK /\ PositionOK /\ [Next]_vars => PositionOK'
<1> SUFFICES ASSUME StoreOK, WriterOK, PositionOK, [Next]_vars PROVE PositionOK'
  OBVIOUS
<1> USE ConstantsAssumption DEF PositionOK, Times, store, configVars, position, range,
         requests, sending
<1>3. ASSUME NEW s \in Series, NEW t \in Times \ {0}, AddMetric(s, t) PROVE PositionOK'
  BY <1>3 DEF AddMetric
<1>4. ASSUME NEW cut \in Times, Compact(cut) PROVE PositionOK'
  BY <1>4 DEF Compact
<1>5. CASE Retain
  BY <1>5 DEF Retain
<1>6. ASSUME NEW r \in Receivers \cup {NoReceiver}, Update(r) PROVE PositionOK'
  BY <1>6 DEF Update
<1>7. CASE GetConfig
  BY <1>7 DEF GetConfig
<1>8. CASE Loop
  BY <1>8, LastSample DEF Loop
<1>9. CASE ReadMin
  <2>1. MinTimeOfStore \in Nat /\ MinTimeOfStore <= MaxTime
    BY FirstBlock
  <2>2. lastWrite + 1 \in 0..MaxTime
    BY <1>9 DEF ReadMin
  <2>3. from' \in 0..MaxTime
    BY <1>9, <2>1, <2>2, PairMax DEF ReadMin
  <2>4. QED
    BY <1>9, <2>3 DEF ReadMin
<1>10. CASE SkipToBlock
  <2> DEFINE ahead == {b \in blocks : from <= b.max}
             S == {b.min : b \in ahead}
  <2>1. CASE ahead = {}
    BY <1>10, <2>1 DEF SkipToBlock
  <2>2. CASE ahead # {}
    <3>1. S \in SUBSET Nat /\ S # {} /\ S \subseteq 0..MaxTime
      BY <2>2 DEF StoreOK
    <3>2. MinOf(S) \in 0..MaxTime
      BY <3>1, Least
    <3>3. MaxOf({from, MinOf(S)}) \in 0..MaxTime
      BY <3>2, PairMax
    <3>4. QED
      BY <1>10, <2>2, <3>3 DEF SkipToBlock
  <2>3. QED
    BY <2>1, <2>2
<1>11. CASE SkipToHead
  <2>1. MaxOf({from, headMin}) \in 0..MaxTime
    BY PairMax DEF StoreOK
  <2>2. QED
    BY <1>11, <2>1 DEF SkipToHead
<1>12. CASE ReadRange
  <2>1. from + RangeDuration \in Nat
    OBVIOUS
  <2>2. MinOf({from + RangeDuration, maxTSDB}) \in 0..MaxTime
    BY <2>1, PairMin
  <2>3. QED
    BY <1>12, <2>2 DEF ReadRange
<1>13. ASSUME NEW last \in BOOLEAN, MayEnd(last), Accepted(Request, last) PROVE PositionOK'
  BY <1>13 DEF Accepted, RequestDone, Arrives
<1>14. ASSUME NEW last \in BOOLEAN, MayEnd(last), Refused(Request, last) PROVE PositionOK'
  BY <1>14 DEF Refused, RequestDone, Fault
<1>15. CASE Failed(Request)
  BY <1>15 DEF Failed, RequestDone, Arrives, Fault
<1>16. CASE StorePosition
  BY <1>16 DEF StorePosition, Fault
<1>17. CASE Sleep
  BY <1>17 DEF Sleep
<1>18. CASE Restart
  BY <1>18 DEF Restart, Fault
<1>19. CASE UNCHANGED vars
  BY <1>19 DEF vars
<1>20. QED
  BY <1>3, <1>4, <1>5, <1>6, <1>7, <1>8, <1>9, <1>10, <1>11, <1>12, <1>13, <1>14, <1>15,
     <1>16, <1>17, <1>18, <1>19 DEF Next, Outside, Routine, SendRequest

\* Every step keeps the types of the flags.
LEMMA FlagsInductive == FlagsOK /\ [Next]_vars => FlagsOK'
<1> SUFFICES ASSUME FlagsOK, [Next]_vars PROVE FlagsOK'
  OBVIOUS
<1> USE DEF FlagsOK, store, configVars, position, range, requests, sending
<1>3. ASSUME NEW s \in Series, NEW t \in Times \ {0}, AddMetric(s, t) PROVE FlagsOK'
  BY <1>3 DEF AddMetric
<1>4. ASSUME NEW cut \in Times, Compact(cut) PROVE FlagsOK'
  BY <1>4 DEF Compact
<1>5. CASE Retain
  BY <1>5 DEF Retain
<1>6. ASSUME NEW r \in Receivers \cup {NoReceiver}, Update(r) PROVE FlagsOK'
  BY <1>6 DEF Update
<1>7. CASE GetConfig
  BY <1>7 DEF GetConfig
<1>8. CASE Loop
  BY <1>8 DEF Loop
<1>9. CASE ReadMin
  BY <1>9 DEF ReadMin
<1>10. CASE SkipToBlock
  BY <1>10 DEF SkipToBlock
<1>11. CASE SkipToHead
  BY <1>11 DEF SkipToHead
<1>12. CASE ReadRange
  BY <1>12 DEF ReadRange, Fault, InRange
<1>13. ASSUME NEW last \in BOOLEAN, MayEnd(last), Accepted(Request, last) PROVE FlagsOK'
  BY <1>13 DEF Accepted, RequestDone, Arrives
<1>14. ASSUME NEW last \in BOOLEAN, MayEnd(last), Refused(Request, last) PROVE FlagsOK'
  BY <1>14 DEF Refused, RequestDone, Fault
<1>15. CASE Failed(Request)
  BY <1>15 DEF Failed, RequestDone, Arrives, Fault
<1>16. CASE StorePosition
  BY <1>16 DEF StorePosition, Fault
<1>17. CASE Sleep
  BY <1>17 DEF Sleep
<1>18. CASE Restart
  BY <1>18 DEF Restart, Fault
<1>19. CASE UNCHANGED vars
  BY <1>19 DEF vars
<1>20. QED
  BY <1>3, <1>4, <1>5, <1>6, <1>7, <1>8, <1>9, <1>10, <1>11, <1>12, <1>13, <1>14, <1>15,
     <1>16, <1>17, <1>18, <1>19 DEF Next, Outside, Routine, SendRequest

\* Every step keeps isRunning true of the routine.
LEMMA RunningInductive == RunsWhileEnabled /\ [Next]_vars => RunsWhileEnabled'
<1> SUFFICES ASSUME RunsWhileEnabled, [Next]_vars PROVE RunsWhileEnabled'
  OBVIOUS
<1> USE DEF RunsWhileEnabled, store, configVars, position, range, requests, sending
<1>3. ASSUME NEW s \in Series, NEW t \in Times \ {0}, AddMetric(s, t) PROVE RunsWhileEnabled'
  BY <1>3 DEF AddMetric
<1>4. ASSUME NEW cut \in Times, Compact(cut) PROVE RunsWhileEnabled'
  BY <1>4 DEF Compact
<1>5. CASE Retain
  BY <1>5 DEF Retain
<1>6. ASSUME NEW r \in Receivers \cup {NoReceiver}, Update(r) PROVE RunsWhileEnabled'
  BY <1>6 DEF Update
<1>7. CASE GetConfig
  BY <1>7 DEF GetConfig
<1>8. CASE Loop
  BY <1>8 DEF Loop
<1>9. CASE ReadMin
  BY <1>9 DEF ReadMin
<1>10. CASE SkipToBlock
  BY <1>10 DEF SkipToBlock
<1>11. CASE SkipToHead
  BY <1>11 DEF SkipToHead
<1>12. CASE ReadRange
  BY <1>12 DEF ReadRange, Fault, InRange
<1>13. ASSUME NEW last \in BOOLEAN, MayEnd(last), Accepted(Request, last) PROVE RunsWhileEnabled'
  BY <1>13 DEF Accepted, RequestDone, Arrives
<1>14. ASSUME NEW last \in BOOLEAN, MayEnd(last), Refused(Request, last) PROVE RunsWhileEnabled'
  BY <1>14 DEF Refused, RequestDone, Fault
<1>15. CASE Failed(Request)
  BY <1>15 DEF Failed, RequestDone, Arrives, Fault
<1>16. CASE StorePosition
  BY <1>16 DEF StorePosition, Fault
<1>17. CASE Sleep
  BY <1>17 DEF Sleep
<1>18. CASE Restart
  BY <1>18 DEF Restart, Fault
<1>19. CASE UNCHANGED vars
  BY <1>19 DEF vars
<1>20. QED
  BY <1>3, <1>4, <1>5, <1>6, <1>7, <1>8, <1>9, <1>10, <1>11, <1>12, <1>13, <1>14, <1>15,
     <1>16, <1>17, <1>18, <1>19 DEF Next, Outside, Routine, SendRequest

-----------------------------------------------------------------------------
\* Every step keeps each sample in the head or in a block.
LEMMA CoveredInductive == StoreOK /\ Covered /\ [Next]_vars => Covered'
<1> SUFFICES ASSUME StoreOK, Covered, [Next]_vars PROVE Covered'
  OBVIOUS
<1> USE DEF Covered, store, configVars, position, range, requests, sending
<1>3. ASSUME NEW s \in Series, NEW t \in Times \ {0}, AddMetric(s, t) PROVE Covered'
  <2> DEFINE new == [series |-> s, time |-> t]
  <2>1. /\ samples' = samples \cup {new} /\ new.time = t
        /\ UNCHANGED <<blocks, valid>> /\ valid <= t
        /\ headMin' = IF samples = {} THEN t ELSE MinOf({headMin, t})
    BY <1>3 DEF AddMetric
  <2>2. /\ t \in Nat /\ headMin \in Nat /\ valid \in Nat /\ \A x \in samples : x.time \in Nat
    BY DEF StoreOK, Samples, Times
  <2>3. headMin' <= t /\ valid <= headMin' /\ headMin' \in Nat
    BY <2>1, <2>2, PairMin
  <2>4. samples # {} => headMin' <= headMin
    BY <2>1, <2>2, PairMin
  <2>5. \A x \in samples : headMin <= x.time => headMin' <= x.time
    BY <2>2, <2>3, <2>4
  <2>6. QED
    BY <2>1, <2>3, <2>5
<1>4. ASSUME NEW cut \in Times, Compact(cut) PROVE Covered'
  <2> DEFINE new == [min |-> headMin, max |-> cut]
  <2>1. new.min = headMin /\ new.max = cut
    OBVIOUS
  <2>2. /\ blocks' = blocks \cup {new} /\ samples' = samples /\ valid' = cut
        /\ headMin < cut /\ cut <= headMin'
        /\ \A x \in samples : x.time >= cut => headMin' <= x.time
        /\ \E x \in samples : headMin' <= x.time
    BY <1>4, Cut DEF Compact
  <2>3. headMin \in Nat /\ valid \in Nat /\ cut \in Nat /\ headMin' \in Nat
    BY <1>4, Cut DEF StoreOK, Times
  <2>4. \A x \in samples : x.time \in Nat
    BY DEF StoreOK, Samples, Times
  <2>5. \A b \in blocks : b.min \in Nat /\ b.max \in Nat
    BY DEF StoreOK, Times
  <2>6. \A b \in blocks' : b.min < b.max /\ b.max <= valid'
    BY <2>1, <2>2, <2>3, <2>5
  <2>7. \A x \in samples' : headMin' <= x.time \/ \E b \in blocks' : b.min <= x.time /\
          x.time < b.max
    <3> SUFFICES ASSUME NEW x \in samples
                 PROVE  headMin' <= x.time \/ \E b \in blocks' : b.min <= x.time /\
                   x.time < b.max
      BY <2>2
    <3>1. CASE \E b \in blocks : b.min <= x.time /\ x.time < b.max
      BY <2>2, <3>1
    <3>2. CASE headMin <= x.time /\ x.time < cut
      BY <2>1, <2>2, <3>2
    <3>3. CASE x.time >= cut
      BY <2>2, <3>3
    <3>4. QED
      BY <2>3, <2>4, <3>1, <3>2, <3>3
  <2>8. QED
    BY <2>2, <2>6, <2>7
<1>5. CASE Retain
  <2>1. PICK o \in blocks : blocks' = blocks \ {o} /\ samples' = {x \in samples : x.time
          >= o.max}
    BY <1>5, Oldest
  <2>2. UNCHANGED <<headMin, valid>>
    BY <1>5 DEF Retain
  <2>3. /\ o.min \in Nat /\ o.max \in Nat /\ headMin \in Nat /\ valid \in Nat
        /\ \A x \in samples : x.time \in Nat
    BY DEF StoreOK, Samples, Times
  <2>4. \E x \in samples : headMin <= x.time
    OBVIOUS
  <2>5. \E x \in samples' : headMin' <= x.time
    BY <2>1, <2>2, <2>3, <2>4
  <2>6. \A x \in samples' : headMin' <= x.time \/ \E b \in blocks' : b.min <= x.time /\
          x.time < b.max
    BY <2>1, <2>2, <2>3
  <2>7. QED
    BY <2>1, <2>2, <2>5, <2>6
<1>6. ASSUME NEW r \in Receivers \cup {NoReceiver}, Update(r) PROVE Covered'
  BY <1>6 DEF Update
<1>7. CASE GetConfig
  BY <1>7 DEF GetConfig
<1>8. CASE Loop
  BY <1>8 DEF Loop
<1>9. CASE ReadMin
  BY <1>9 DEF ReadMin
<1>10. CASE SkipToBlock
  BY <1>10 DEF SkipToBlock
<1>11. CASE SkipToHead
  BY <1>11 DEF SkipToHead
<1>12. CASE ReadRange
  BY <1>12 DEF ReadRange, Fault, InRange
<1>13. ASSUME NEW last \in BOOLEAN, MayEnd(last), Accepted(Request, last) PROVE Covered'
  BY <1>13 DEF Accepted, RequestDone, Arrives
<1>14. ASSUME NEW last \in BOOLEAN, MayEnd(last), Refused(Request, last) PROVE Covered'
  BY <1>14 DEF Refused, RequestDone, Fault
<1>15. CASE Failed(Request)
  BY <1>15 DEF Failed, RequestDone, Arrives, Fault
<1>16. CASE StorePosition
  BY <1>16 DEF StorePosition, Fault
<1>17. CASE Sleep
  BY <1>17 DEF Sleep
<1>18. CASE Restart
  BY <1>18 DEF Restart, Fault
<1>19. CASE UNCHANGED vars
  BY <1>19 DEF vars
<1>20. QED
  BY <1>3, <1>4, <1>5, <1>6, <1>7, <1>8, <1>9, <1>10, <1>11, <1>12, <1>13, <1>14, <1>15,
     <1>16, <1>17, <1>18, <1>19 DEF Next, Outside, Routine, SendRequest

\* Every step leaves nothing behind that it does not count as missed.
LEMMA ProgressInductive ==
  StoreOK /\ WriterOK /\ PositionOK /\ SentOnce /\ Covered /\ Progress /\ [Next]_vars
    => Progress'
<1> SUFFICES ASSUME StoreOK, WriterOK, PositionOK, SentOnce, Covered, Progress,
         [Next]_vars PROVE Progress'
  OBVIOUS
<1> USE DEF Progress, NothingSkipped, Done, store, configVars, position, range, requests,
         sending
<1>0. /\ {lastWrite, maxTSDB, from, to, headMin, valid} \subseteq Nat
      /\ \A x \in samples : x.time \in Nat
      /\ \A b \in blocks : b.min \in Nat /\ b.max \in Nat
  BY DEF StoreOK, PositionOK, Samples, Times
<1>3. ASSUME NEW s \in Series, NEW t \in Times \ {0}, AddMetric(s, t) PROVE Progress'
  <2> DEFINE new == [series |-> s, time |-> t]
  <2>1. /\ samples' = samples \cup {new} /\ new.time = t
        /\ missed' = IF Passed(t) THEN missed \cup {new} ELSE missed
        /\ headMin' = IF samples = {} THEN t ELSE MinOf({headMin, t})
        /\ UNCHANGED <<pc, lastWrite, file, from, to, unsent, accepted, refused>>
    BY <1>3 DEF AddMetric
  <2>2. t \in Nat
    BY DEF Times
  <2>3. headMin' <= t /\ \A x \in samples : x.time < headMin' => x.time < headMin
    BY <1>0, <2>1, <2>2, PairMin
  <2>4. Passed(t) => Done(new)'
    BY <2>1
  <2>5. \A x \in samples : Done(x) => Done(x)'
    BY <2>1
  <2> HIDE DEF Done, new
  <2>6. \A x \in samples' : x \in samples \/ (x = new /\ x.time = t)
    BY <2>1
  <2>7. lastWrite' = lastWrite /\ (t <= lastWrite => Done(new)')
    BY <2>1, <2>4 DEF Passed
  <2>8. pc \in {"blocks", "head", "read"} => (t < from => Done(new)')
    BY <2>4 DEF Passed
  <2>9. pc \in {"send", "store"} => (t <= to => Done(new)')
    BY <2>4 DEF Passed
  <2>10. \A x \in samples' : x.time <= lastWrite' => Done(x)'
    BY <2>5, <2>6, <2>7 DEF Done
  <2>11. pc \in {"blocks", "head", "read"} => \A x \in samples' : x.time < from => Done(x)'
    BY <2>5, <2>6, <2>8
  <2>12. pc = "head" => \A x \in samples' : x.time < headMin' => Done(x)'
    <3>1. headMin' \in Nat
      BY <1>0, <2>1, <2>2, PairMin
    <3>2. QED
      BY <2>2, <2>3, <2>5, <2>6, <3>1
  <2>13. pc \in {"send", "store"} =>
           \A x \in samples' : x.time <= to => Done(x)' \/ (pc = "send" /\ x \in unsent)
    BY <2>5, <2>6, <2>9
  <2>14. QED
    BY <2>1, <2>10, <2>11, <2>12, <2>13 DEF Done
<1>4. ASSUME NEW cut \in Times, Compact(cut) PROVE Progress'
  <2>1. /\ UNCHANGED <<pc, samples, lastWrite, file, from, to, unsent, accepted, refused>>
        /\ missed' = missed \cup
             {x \in samples : pc = "head" /\ from <= x.time /\ x.time < headMin'}
    BY <1>4 DEF Compact
  <2>2. ASSUME pc = "head", NEW x \in samples, x.time < headMin' PROVE Done(x)'
    <3>1. CASE x.time < from
      BY <2>1, <2>2, <3>1
    <3>2. CASE from <= x.time
      BY <2>1, <2>2, <3>2
    <3>3. QED
      BY <1>0, <3>1, <3>2
  <2>3. QED
    BY <2>1, <2>2
<1>5. CASE Retain
  <2>1. samples' \subseteq samples
    BY <1>5, Oldest
  <2>2. UNCHANGED <<pc, headMin, lastWrite, file, from, to, sending>>
    BY <1>5 DEF Retain
  <2>3. QED
    BY <2>1, <2>2
<1>6. ASSUME NEW r \in Receivers \cup {NoReceiver}, Update(r) PROVE Progress'
  BY <1>6 DEF Update
<1>7. CASE GetConfig
  BY <1>7 DEF GetConfig
<1>8. CASE Loop
  BY <1>8 DEF Loop
<1>9. CASE ReadMin
  <2>1. MinTimeOfStore \in Nat /\ \A x \in samples : MinTimeOfStore <= x.time
    BY MinTimeIsFirst, FirstBlock DEF Times
  <2>2. \A x \in samples : x.time < from' => x.time <= lastWrite
    BY <1>0, <1>9, <2>1, PairMax DEF ReadMin
  <2>3. QED
    BY <1>9, <2>2 DEF ReadMin
<1>10. CASE SkipToBlock
  <2> DEFINE ahead == {b \in blocks : from <= b.max}
             S == {b.min : b \in ahead}
  <2>1. CASE ahead = {}
    <3>1. \A x \in samples : x.time < headMin => x.time < from
      BY <1>0, <2>1 DEF Covered
    <3>2. QED
      BY <1>10, <2>1, <3>1 DEF SkipToBlock
  <2>2. CASE ahead # {}
    <3>1. S \in SUBSET Nat /\ S # {}
      BY <1>0, <2>2
    <3>2. MinOf(S) \in S /\ \A t \in S : MinOf(S) <= t
      BY <3>1, Least
    <3>3. PICK b \in ahead : MinOf(S) = b.min
      BY <3>2
    <3>4. from' = IF from <= b.min THEN b.min ELSE from
      BY <1>0, <1>10, <2>2, <3>3, PairMax DEF SkipToBlock
    <3>5. b.min < headMin
      BY <1>0 DEF Covered
    <3>6. \A d \in ahead : b.min <= d.min
      BY <3>2, <3>3
    <3>7. \A x \in samples : x.time < from' => Done(x)
      <4> SUFFICES ASSUME NEW x \in samples, x.time < from', from <= x.time PROVE FALSE
        BY <1>0, <1>10 DEF SkipToBlock
      <4>1. x.time < b.min
        BY <1>0, <3>4
      <4>2. PICK d \in blocks : d.min <= x.time /\ x.time < d.max
        BY <1>0, <3>5, <4>1 DEF Covered
      <4>3. d \in ahead
        BY <1>0, <4>2
      <4>4. QED
        BY <1>0, <3>6, <4>1, <4>2, <4>3
    <3>8. QED
      BY <1>10, <2>2, <3>7 DEF SkipToBlock
  <2>3. QED
    BY <2>1, <2>2
<1>11. CASE SkipToHead
  <2>1. from' = IF from <= headMin THEN headMin ELSE from
    BY <1>0, <1>11, PairMax DEF SkipToHead
  <2>2. \A x \in samples : x.time < from' => Done(x)
    BY <1>11, <2>1 DEF SkipToHead
  <2>3. QED
    BY <1>11, <2>2 DEF SkipToHead
<1>12. CASE ReadRange
  <2>1. CASE pc' = "sleep"
    BY <1>12, <2>1 DEF ReadRange
  <2>2. CASE pc' \in {"store", "send"}
    <3> DEFINE whole == InRange(from, to')
    <3>1. /\ pc = "read" /\ UNCHANGED <<samples, lastWrite, file, accepted, refused>>
          /\ \/ unsent' = whole /\ missed' = missed
             \/ missed' = missed \cup (whole \ unsent')
          /\ pc' = "store" => unsent' = {}
      BY <1>12, <2>2 DEF ReadRange
    <3>2. to' \in Nat
      <4>1. from + RangeDuration \in Nat
        BY <1>0, ConstantsAssumption
      <4>2. QED
        BY <1>0, <1>12, <4>1, PairMin DEF ReadRange
    <3>3. \A x \in samples : from <= x.time /\ x.time <= to' => x \in whole
      BY DEF InRange
    <3> HIDE DEF whole
    <3>4. ASSUME NEW x \in samples, x.time <= to' PROVE Done(x)' \/ x \in unsent'
      <4>1. CASE x.time < from
        BY <3>1, <4>1
      <4>2. CASE from <= x.time
        BY <3>1, <3>3, <3>4, <4>2
      <4>3. QED
        BY <1>0, <4>1, <4>2
    <3>5. \A x \in samples : Done(x) => Done(x)'
      BY <3>1
    <3>6. QED
      BY <2>2, <3>1, <3>4, <3>5
  <2>3. QED
    BY <1>12, <2>1, <2>2 DEF ReadRange
<1>13. ASSUME NEW last \in BOOLEAN, MayEnd(last), Accepted(Request, last) PROVE Progress'
  BY <1>13, RequestUnsent DEF Accepted, RequestDone, Arrives, MayEnd
<1>14. ASSUME NEW last \in BOOLEAN, MayEnd(last), Refused(Request, last) PROVE Progress'
  BY <1>14, RequestUnsent DEF Refused, RequestDone, Fault, MayEnd
<1>15. CASE Failed(Request)
  BY <1>15 DEF Failed, RequestDone, Arrives, Fault
<1>16. CASE StorePosition
  <2>1. /\ file' \in {file, Torn, to} /\ lastWrite' = to /\ pc' = "loop"
        /\ UNCHANGED <<samples, sending>>
    BY <1>16 DEF StorePosition
  <2>2. lastWrite <= to /\ \A x \in samples : x.time <= to => Done(x)
    BY <1>16 DEF StorePosition, SentOnce
  <2>3. file' # Torn => file' <= to
    BY <1>0, <2>1, <2>2 DEF PositionOK, Times
  <2>4. QED
    BY <2>1, <2>2, <2>3
<1>17. CASE Sleep
  BY <1>17 DEF Sleep
<1>18. CASE Restart
  <2>1. /\ lastWrite' = IF file = Torn THEN 0 ELSE file
        /\ missed' = {x \in missed : x.time <= lastWrite'}
        /\ pc' = "off" /\ UNCHANGED <<samples, file, accepted, refused>>
    BY <1>18 DEF Restart
  <2>2. lastWrite' \in Nat /\ lastWrite' <= lastWrite /\ (file # Torn => file = lastWrite')
    BY <1>0, <2>1 DEF PositionOK, Times
  <2>3. \A x \in samples : x.time <= lastWrite' => Done(x)'
    BY <1>0, <2>1, <2>2
  <2>4. QED
    BY <2>1, <2>2, <2>3
<1>19. CASE UNCHANGED vars
  BY <1>19 DEF vars
<1>20. QED
  BY <1>3, <1>4, <1>5, <1>6, <1>7, <1>8, <1>9, <1>10, <1>11, <1>12, <1>13, <1>14, <1>15,
     <1>16, <1>17, <1>18, <1>19 DEF Next, Outside, Routine, SendRequest

\* Every step sends what was not sent.
LEMMA SentOnceInductive ==
  StoreOK /\ WriterOK /\ PositionOK /\ RunsWhileEnabled /\ SentOnce /\ [Next]_vars
    => SentOnce'
<1> SUFFICES ASSUME StoreOK, WriterOK, PositionOK, RunsWhileEnabled, SentOnce,
         [Next]_vars PROVE SentOnce'
  OBVIOUS
<1> USE DEF StoreOK, WriterOK, PositionOK, RunsWhileEnabled, SentOnce, Times, Samples,
         store, configVars, position, range, requests, sending
<1>3. ASSUME NEW s \in Series, NEW t \in Times \ {0}, AddMetric(s, t) PROVE SentOnce'
  BY <1>3 DEF AddMetric
<1>4. ASSUME NEW cut \in Times, Compact(cut) PROVE SentOnce'
  BY <1>4 DEF Compact
<1>5. CASE Retain
  BY <1>5 DEF Retain
<1>6. ASSUME NEW r \in Receivers \cup {NoReceiver}, Update(r) PROVE SentOnce'
  BY <1>6 DEF Update
<1>7. CASE GetConfig
  BY <1>7 DEF GetConfig
<1>8. CASE Loop
  BY <1>8 DEF Loop
<1>9. CASE ReadMin
  <2>1. MinTimeOfStore \in Nat
    BY FirstBlock
  <2>2. lastWrite < from'
    BY <1>9, <2>1, PairMax DEF ReadMin
  <2>3. QED
    BY <1>9, <2>2 DEF ReadMin
<1>10. CASE SkipToBlock
  <2> DEFINE ahead == {b \in blocks : from <= b.max}
             S == {b.min : b \in ahead}
  <2>1. CASE ahead = {}
    BY <1>10, <2>1 DEF SkipToBlock
  <2>2. CASE ahead # {}
    <3>1. S \in SUBSET Nat /\ S # {}
      BY <2>2
    <3>2. MinOf(S) \in Nat
      BY <3>1, Least
    <3>3. from <= from'
      BY <1>10, <2>2, <3>2, PairMax DEF SkipToBlock
    <3>4. from' \in Nat
      BY <1>10, <2>2, <3>2, PairMax DEF SkipToBlock
    <3>5. QED
      BY <1>10, <3>3, <3>4 DEF SkipToBlock
  <2>3. QED
    BY <2>1, <2>2
<1>11. CASE SkipToHead
  <2>1. from <= from' /\ from' \in Nat
    BY <1>11, PairMax DEF SkipToHead
  <2>2. QED
    BY <1>11, <2>1 DEF SkipToHead
<1>12. CASE ReadRange
  <2>1. CASE /\ unsent' \subseteq InRange(from, to') /\ (faults' = faults \/ Fault)
             /\ pc' \in {"store", "send"} /\ (pc' = "store" => unsent' = {})
    <3>1. from + RangeDuration \in Nat /\ from < from + RangeDuration
      BY ConstantsAssumption
    <3>2. to' = IF from + RangeDuration <= maxTSDB THEN from + RangeDuration ELSE maxTSDB
      BY <1>12, <3>1, PairMin DEF ReadRange
    <3>3. lastWrite < to' /\ to' \in Nat
      <4>1. lastWrite < from /\ lastWrite < maxTSDB
        BY <1>12 DEF ReadRange
      <4>2. QED
        BY <3>1, <3>2, <4>1
    <3>4. \A x \in unsent' : lastWrite < x.time /\ x.time <= to'
      BY <1>12, <2>1 DEF ReadRange, InRange
    <3>5. \A x \in accepted : x.time <= lastWrite => x \notin unsent'
      BY <3>4
    <3>6. pc = "read" /\ UNCHANGED <<lastWrite, accepted, resent>>
      BY <1>12 DEF ReadRange
    <3>7. faults' = 0 => ~resent /\ \A x \in accepted : x.time <= lastWrite
      BY <2>1, <3>6 DEF Fault
    <3>8. QED
      BY <2>1, <3>3, <3>4, <3>6, <3>7
  <2>2. CASE pc' = "sleep" /\ Fault
    BY <1>12, <2>2 DEF ReadRange, Fault
  <2>3. CutShort(InRange(from, to')) \subseteq SUBSET InRange(from, to')
    BY DEF CutShort
  <2>4. QED
    BY <1>12, <2>1, <2>2, <2>3 DEF ReadRange
<1>13. ASSUME NEW last \in BOOLEAN, MayEnd(last), Accepted(Request, last) PROVE SentOnce'
  <2>1. /\ pc = "send" /\ unsent' = unsent \ Request /\ pc' \in {"send", "store"}
        /\ UNCHANGED <<lastWrite, to, faults>>
        /\ accepted' = accepted \cup Request
    BY <1>13 DEF Accepted, RequestDone, Arrives
  <2>2. \A x \in Request : x \in unsent /\ lastWrite < x.time /\ x.time <= to
    BY <2>1, RequestUnsent
  <2>3. faults = 0 => Request \cap accepted = {} /\ ~resent
    BY <2>1, <2>2
  <2>4. faults = 0 => ~resent'
    BY <1>13, <2>3, Zenon DEF Accepted, Arrives
  <2>5. QED
    BY <2>1, <2>2, <2>4
<1>14. ASSUME NEW last \in BOOLEAN, MayEnd(last), Refused(Request, last) PROVE SentOnce'
  BY <1>14 DEF Refused, RequestDone, Fault
<1>15. CASE Failed(Request)
  BY <1>15 DEF Failed, RequestDone, Arrives, Fault
<1>16. CASE StorePosition
  BY <1>16 DEF StorePosition, Fault
<1>17. CASE Sleep
  BY <1>17 DEF Sleep
<1>18. CASE Restart
  BY <1>18 DEF Restart, Fault
<1>19. CASE UNCHANGED vars
  BY <1>19 DEF vars
<1>20. QED
  BY <1>3, <1>4, <1>5, <1>6, <1>7, <1>8, <1>9, <1>10, <1>11, <1>12, <1>13, <1>14, <1>15,
     <1>16, <1>17, <1>18, <1>19 DEF Next, Outside, Routine, SendRequest
-----------------------------------------------------------------------------
TypeInv == StoreOK /\ WriterOK /\ PositionOK /\ FlagsOK /\ RunsWhileEnabled

\* The types hold at every step of the writer and of the store.
LEMMA Typed == Spec => []TypeInv
<1>1. Init => TypeInv
  BY Initially DEF TypeInv
<1>2. TypeInv /\ [Next]_vars => TypeInv'
  BY StoreInductive, WriterInductive, PositionInductive, FlagsInductive, RunningInductive
     DEF TypeInv
<1>3. QED
  BY <1>1, <1>2, PTL DEF Spec

\* Every variable stays within its type, for every value of the constants.
THEOREM TypeCorrect == Spec => []TypeOK
<1>1. TypeInv => TypeOK
  BY DEF TypeInv, TypeOK, StoreOK, WriterOK, PositionOK, FlagsOK
<1>2. QED
  BY <1>1, Typed, PTL

\* While a receiver is configured one routine runs, and says so (Update,
\* getConfig).
THEOREM RoutineRuns == Spec => []RunsWhileEnabled
<1>1. TypeInv => RunsWhileEnabled
  BY DEF TypeInv
<1>2. QED
  BY <1>1, Typed, PTL

\* What was sent is before the position or in the range under way.
LEMMA Sending == Spec => []SentOnce
<1>1. Init => SentOnce
  BY DEF Init, SentOnce
<1>2. TypeInv /\ SentOnce /\ [Next]_vars => SentOnce'
  BY SentOnceInductive DEF TypeInv
<1>3. QED
  BY <1>1, <1>2, Typed, PTL DEF Spec

\* Whatever is in the store up to the position was accepted, or refused for good,
\* or is one of the samples that the three named causes make the writer pass:
\* there is no other way to skip one (RemoteWrite.Write).
THEOREM EverythingWritten == Spec => []NothingSkipped
<1>1. Init => Covered /\ Progress
  BY ConstantsAssumption DEF Init, Covered, Progress, NothingSkipped, Done, Times
<1>2. TypeInv /\ SentOnce /\ Covered /\ Progress /\ [Next]_vars => (Covered /\ Progress)'
  BY CoveredInductive, ProgressInductive DEF TypeInv
<1>3. Progress => NothingSkipped
  BY DEF Progress
<1>4. QED
  BY <1>1, <1>2, <1>3, Typed, Sending, PTL DEF Spec

\* As long as nothing fails no sample is sent twice (RemoteWrite.Write).
THEOREM SentAtMostOnce == Spec => []NoDuplicates
<1>1. SentOnce => NoDuplicates
  BY DEF SentOnce, NoDuplicates
<1>2. QED
  BY <1>1, Sending, PTL

-----------------------------------------------------------------------------
(* The store's answer *)

IsAscending(q) == \A j, k \in DOMAIN q : j < k => q[j] < q[k]

\* A finite set of times has an ascending listing: of the sets that have none,
\* one of the fewest times would have a listing without its last time.
LEMMA AscendingExists ==
  ASSUME NEW m \in Nat, NEW T \in SUBSET (0..m)
  PROVE  \E q \in [1..Cardinality(T) -> T] : IsAscending(q)
<1> DEFINE Listed(S) == \E q \in [1..Cardinality(S) -> S] : IsAscending(q)
           Bad == {n \in Nat : \E S \in SUBSET (0..m) : Cardinality(S) = n /\ ~Listed(S)}
<1> HIDE DEF Listed
<1>1. \A S \in SUBSET (0..m) : IsFiniteSet(S) /\ Cardinality(S) \in Nat
  <2>1. IsFiniteSet(0..m)
    BY FS_Interval
  <2>2. QED
    BY <2>1, FS_Subset, FS_CardinalityType
<1>2. SUFFICES ASSUME Bad # {} PROVE FALSE
  BY <1>1 DEF Listed
<1> DEFINE n == MinOf(Bad)
<1>3. n \in Bad /\ \A y \in Bad : n <= y
  <2>1. Bad \in SUBSET Nat
    OBVIOUS
  <2>2. QED
    BY <1>2, <2>1, Least
<1> HIDE DEF n
<1>4. PICK S \in SUBSET (0..m) : Cardinality(S) = n /\ ~Listed(S)
  BY <1>3
<1>5. S # {}
  <2> SUFFICES ASSUME S = {} PROVE FALSE
    OBVIOUS
  <2>1. Cardinality(S) = 0
    BY FS_EmptySet
  <2>2. [k \in {} |-> k] \in [1..Cardinality(S) -> S] /\ IsAscending([k \in {} |-> k])
    BY <2>1 DEF IsAscending
  <2>3. QED
    BY <1>4, <2>2 DEF Listed
<1> DEFINE top == MaxOf(S)
           R == S \ {top}
<1>6. top \in S /\ \A y \in S : y <= top
  BY <1>5, Greatest
<1> HIDE DEF top
<1>7. R \in SUBSET (0..m) /\ Cardinality(R) = n - 1 /\ n \in Nat /\ n # 0
  <2>1. Cardinality(R) = n - 1
    BY <1>1, <1>4, <1>6, FS_RemoveElement
  <2>2. Cardinality(R) \in Nat /\ n \in Nat
    BY <1>1, <1>4
  <2>3. n # 0
    BY <2>1, <2>2
  <2>4. \A t \in S : t \in 0..m
    OBVIOUS
  <2>5. R \in SUBSET (0..m)
    BY <2>4
  <2>6. QED
    BY <2>1, <2>2, <2>3, <2>5
<1>8. Listed(R)
  <2>1. n - 1 \in Nat /\ ~(n <= n - 1)
    BY <1>7
  <2>2. QED
    BY <1>3, <1>7, <2>1
<1>9. PICK q \in [1..n - 1 -> R] : IsAscending(q)
  BY <1>7, <1>8 DEF Listed
<1> DEFINE r == [k \in 1..n |-> IF k = n THEN top ELSE q[k]]
<1>10. r \in [1..n -> S]
  <2> SUFFICES ASSUME NEW k \in 1..n PROVE (IF k = n THEN top ELSE q[k]) \in S
    OBVIOUS
  <2>1. k # n => k \in 1..n - 1
    BY <1>7
  <2>2. QED
    BY <1>6, <1>9, <2>1
<1>11. IsAscending(r)
  <2> SUFFICES ASSUME NEW j \in 1..n, NEW k \in 1..n, j < k PROVE r[j] < r[k]
    BY DEF IsAscending
  <2>1. j \in 1..n - 1 /\ r[j] = q[j]
    BY <1>7
  <2>2. CASE k = n
    <3>1. q[j] \in S /\ q[j] # top
      BY <1>9, <2>1
    <3>2. q[j] <= top /\ q[j] \in Nat /\ top \in Nat
      <4>1. \A t \in S : t \in Nat
        OBVIOUS
      <4>2. QED
        BY <1>6, <3>1, <4>1
    <3>3. QED
      BY <2>1, <2>2, <3>1, <3>2
  <2>3. CASE k # n
    <3>1. k \in 1..n - 1 /\ r[k] = q[k]
      BY <1>7, <2>3
    <3>2. QED
      BY <1>9, <2>1, <3>1 DEF IsAscending
  <2>4. QED
    BY <2>2, <2>3
<1>12. QED
  BY <1>4, <1>10, <1>11 DEF Listed

\* Ascending(T) lists T in order, each time once.
LEMMA AscendingLists ==
  ASSUME NEW m \in Nat, NEW T \in SUBSET (0..m)
  PROVE  /\ Cardinality(T) \in Nat
         /\ Ascending(T) \in [1..Cardinality(T) -> T]
         /\ IsAscending(Ascending(T))
         /\ \A t \in T : \E k \in DOMAIN Ascending(T) : Ascending(T)[k] = t
<1> DEFINE q == Ascending(T)
           n == Cardinality(T)
<1>1. IsFiniteSet(T) /\ n \in Nat
  <2>1. IsFiniteSet(0..m)
    BY FS_Interval
  <2>2. QED
    BY <2>1, FS_Subset, FS_CardinalityType
<1>2. q \in [1..n -> T] /\ IsAscending(q)
  BY AscendingExists DEF Ascending, IsAscending
<1> HIDE DEF q
<1>3. q \in Injection(1..n, T)
  <2>1. ASSUME NEW j \in 1..n, NEW k \in 1..n, q[j] = q[k] PROVE j = k
    <3>1. q[j] \in T /\ q[k] \in T
      BY <1>2
    <3>2. q[j] \in Nat /\ q[k] \in Nat
      <4>1. \A t \in T : t \in Nat
        OBVIOUS
      <4>2. QED
        BY <3>1, <4>1
    <3>3. ~(j < k) /\ ~(k < j)
      BY <1>2, <2>1, <3>2 DEF IsAscending
    <3>4. QED
      BY <1>1, <3>3
  <2>2. QED
    BY <1>2, <2>1 DEF Injection, IsInjective
<1>4. Cardinality(1..n) = n
  BY <1>1, FS_Interval
<1>5. q \in Surjection(1..n, T)
  BY <1>1, <1>3, <1>4, FS_Injection
<1>6. QED
  BY <1>1, <1>2, <1>5 DEF Surjection, q

-----------------------------------------------------------------------------
(* The loop of writeRange *)

\* Series in the order of their labels, each with its points in order.
InOrder(q) ==
  /\ \A j, k \in DOMAIN q : j < k => q[j].labels < q[k].labels
  /\ \A j \in DOMAIN q : IsAscending(q[j].points)

SeriesSeq == Seq([labels : Series, points : Seq(Times)])

SampleAt(q, k, p) == [series |-> q[k].labels, time |-> q[k].points[p]]

\* A sample of some series is at a place in one of them.
LEMMA InSamplesOf ==
  ASSUME NEW q, NEW x
  PROVE  x \in SamplesOf(q) <=>
           \E k \in DOMAIN q : \E p \in DOMAIN q[k].points : x = SampleAt(q, k, p)
BY DEF SamplesOf, SampleAt

\* A function on 1..n is a sequence.
LEMMA SeqOfFunction ==
  ASSUME NEW n \in Nat, NEW S, NEW f \in [1..n -> S]
  PROVE  f \in Seq(S) /\ Len(f) = n /\ DOMAIN f = 1..n
OBVIOUS

\* The store returns the samples it was asked for, in order (metrics.go, toSeries).
LEMMA ReturnedSeries ==
  ASSUME NEW X \in SUBSET Samples, NEW q \in Returned(X)
  PROVE  q \in SeriesSeq /\ InOrder(q) /\ SamplesOf(q) = X
<1>1. PICK R \in SUBSET Series : q = Listing(R, X) /\ \A x \in X : x.series \in R
  BY DEF Returned
<1> DEFINE labels == Ascending(R)
           TimesOf(s) == {x.time : x \in {y \in X : y.series = s}}
           times(s) == Ascending(TimesOf(s))
           n == Cardinality(R)
<1>2. /\ n \in Nat /\ labels \in [1..n -> R] /\ IsAscending(labels)
      /\ \A s \in R : \E k \in DOMAIN labels : labels[k] = s
  <2>1. NumSeries \in Nat /\ R \in SUBSET (0..NumSeries)
    BY ConstantsAssumption DEF Series
  <2>2. QED
    BY <2>1, AscendingLists
<1>3. ASSUME NEW s
      PROVE  /\ times(s) \in Seq(Times) /\ IsAscending(times(s))
             /\ \A p \in DOMAIN times(s) : times(s)[p] \in TimesOf(s)
             /\ \A t \in TimesOf(s) : \E p \in DOMAIN times(s) : times(s)[p] = t
  <2>1. MaxTime \in Nat /\ TimesOf(s) \in SUBSET (0..MaxTime)
    BY ConstantsAssumption DEF Samples, Times
  <2>2. /\ Cardinality(TimesOf(s)) \in Nat
        /\ times(s) \in [1..Cardinality(TimesOf(s)) -> TimesOf(s)]
        /\ IsAscending(times(s))
        /\ \A t \in TimesOf(s) : \E p \in DOMAIN times(s) : times(s)[p] = t
    BY <2>1, AscendingLists
  <2> HIDE DEF times, TimesOf
  <2>3. times(s) \in [1..Cardinality(TimesOf(s)) -> Times]
    BY <2>1, <2>2 DEF Times
  <2>4. times(s) \in Seq(Times)
    BY <2>2, <2>3, SeqOfFunction
  <2>5. QED
    BY <2>2, <2>4
<1>4. q = [k \in 1..n |-> [labels |-> labels[k], points |-> times(labels[k])]]
  <2>1. DOMAIN labels = 1..n
    BY <1>2
  <2>2. QED
    BY <1>1, <2>1 DEF Listing
<1> HIDE DEF labels, times, n
<1>5. \A k \in 1..n : labels[k] \in R /\ labels[k] \in Series
  BY <1>2
<1>6. q \in SeriesSeq
  <2>1. q \in [1..n -> [labels : Series, points : Seq(Times)]]
    BY <1>3, <1>4, <1>5
  <2>2. QED
    BY <1>2, <2>1, SeqOfFunction DEF SeriesSeq
<1>7. InOrder(q)
  <2>1. \A j, k \in 1..n : j < k => q[j].labels < q[k].labels
    BY <1>2, <1>4 DEF IsAscending
  <2>2. \A j \in 1..n : IsAscending(q[j].points)
    BY <1>3, <1>4
  <2>3. QED
    BY <1>4, <2>1, <2>2 DEF InOrder
<1>8. \A k \in 1..n : q[k].labels = labels[k] /\ q[k].points = times(labels[k])
  BY <1>4
<1>9. ASSUME NEW x \in SamplesOf(q) PROVE x \in X
  <2>1. PICK k \in DOMAIN q : \E p \in DOMAIN q[k].points : x = SampleAt(q, k, p)
    BY <1>9, InSamplesOf
  <2>2. PICK p \in DOMAIN q[k].points : x = SampleAt(q, k, p)
    BY <2>1
  <2>3. k \in 1..n
    BY <1>4, <2>1
  <2>4. x = [series |-> labels[k], time |-> times(labels[k])[p]]
    BY <1>8, <2>2, <2>3 DEF SampleAt
  <2>5. times(labels[k])[p] \in TimesOf(labels[k])
    BY <1>3, <1>8, <2>3
  <2>6. PICK y \in X : y.series = labels[k] /\ times(labels[k])[p] = y.time
    BY <2>5
  <2>7. y = [series |-> y.series, time |-> y.time]
    BY DEF Samples
  <2>8. QED
    BY <2>4, <2>6, <2>7
<1>10. ASSUME NEW x \in X PROVE x \in SamplesOf(q)
  <2>1. x.series \in R /\ x.time \in TimesOf(x.series)
    BY <1>1
  <2>2. PICK k \in 1..n : labels[k] = x.series
    BY <1>2, <2>1
  <2> HIDE DEF TimesOf
  <2>3. PICK p \in DOMAIN times(labels[k]) : times(labels[k])[p] = x.time
    <3>1. x.time \in TimesOf(labels[k])
      BY <2>1, <2>2
    <3>2. \A t \in TimesOf(labels[k]) :
            \E p \in DOMAIN times(labels[k]) : times(labels[k])[p] = t
      BY <1>3
    <3>3. QED
      BY <3>1, <3>2
  <2>4. x = [series |-> x.series, time |-> x.time]
    BY DEF Samples
  <2>5. x = SampleAt(q, k, p) /\ k \in DOMAIN q /\ p \in DOMAIN q[k].points
    BY <1>4, <1>8, <2>2, <2>3, <2>4 DEF SampleAt
  <2>6. QED
    BY <2>5, InSamplesOf
<1>11. QED
  BY <1>6, <1>7, <1>9, <1>10

\* There are finitely many samples within the bounds.
LEMMA SamplesFinite == IsFiniteSet(Samples)
<1> DEFINE P == Series \X Times
           f == [p \in P |-> [series |-> p[1], time |-> p[2]]]
           S == [series : Series, time : Times]
<1>1. IsFiniteSet(Series) /\ IsFiniteSet(Times)
  <2>1. NumSeries \in Int /\ MaxTime \in Int
    BY ConstantsAssumption
  <2>2. IsFiniteSet(1..NumSeries) /\ IsFiniteSet(0..MaxTime)
    BY <2>1, FS_Interval
  <2>3. QED
    BY <2>2 DEF Series, Times
<1>2. IsFiniteSet(P)
  BY <1>1, FS_Product
<1>3. f \in Surjection(P, S)
  <2>1. f \in [P -> S]
    OBVIOUS
  <2>2. ASSUME NEW x \in S PROVE \E p \in P : f[p] = x
    <3>1. <<x.series, x.time>> \in P /\ f[<<x.series, x.time>>] = x
      OBVIOUS
    <3>2. QED
      BY <3>1
  <2>3. QED
    BY <2>1, <2>2 DEF Surjection
<1>4. IsFiniteSet(S)
  BY <1>2, <1>3, FS_Surjection
<1>5. Samples \subseteq S
  BY DEF Samples
<1>6. QED
  BY <1>4, <1>5, FS_Subset

\* The first samples not sent, as many as fit or all there are, are the request.
LEMMA FirstIsRequest ==
  ASSUME unsent \subseteq Samples, NEW R \in SUBSET unsent,
         \A x \in R : \A y \in unsent \ R : Before(x, y),
         \/ Cardinality(R) = NumSamples
         \/ R = unsent /\ Cardinality(R) <= NumSamples
  PROVE  Request = R
<1> DEFINE B(x) == {y \in unsent : Before(y, x)}
<1>1. IsFiniteSet(unsent) /\ IsFiniteSet(R) /\ \A x : IsFiniteSet(B(x))
  <2>1. IsFiniteSet(unsent)
    BY SamplesFinite, FS_Subset
  <2>2. QED
    BY <2>1, FS_Subset
<1>2. Cardinality(R) \in Nat /\ \A x : Cardinality(B(x)) \in Nat
  BY <1>1, FS_CardinalityType
<1>3. \A x, y \in unsent : ~(Before(x, y) /\ Before(y, x)) /\ ~Before(x, x)
  <2>1. \A x \in unsent : x.series \in Nat /\ x.time \in Nat
    BY DEF Samples, Series, Times
  <2>2. QED
    BY <2>1 DEF Before
<1>4. ASSUME NEW x \in R PROVE Cardinality(B(x)) < NumSamples
  <2>1. B(x) \subseteq R \ {x}
    BY <1>3
  <2>2. IsFiniteSet(R \ {x}) /\ Cardinality(R \ {x}) = Cardinality(R) - 1
    BY <1>1, FS_RemoveElement
  <2>3. Cardinality(B(x)) <= Cardinality(R) - 1
    BY <2>1, <2>2, FS_Subset
  <2>4. NumSamples \in Nat /\ Cardinality(R) <= NumSamples
    BY ConstantsAssumption
  <2>5. Cardinality(B(x)) \in Nat
    BY <1>2
  <2> HIDE DEF B
  <2>6. QED
    BY <1>2, <2>3, <2>4, <2>5
<1>5. ASSUME NEW x \in unsent \ R PROVE ~(Cardinality(B(x)) < NumSamples)
  <2>1. R \subseteq B(x)
    OBVIOUS
  <2>2. Cardinality(R) <= Cardinality(B(x))
    BY <1>1, <2>1, FS_Subset
  <2>3. Cardinality(R) = NumSamples
    OBVIOUS
  <2>4. QED
    BY <1>2, <2>2, <2>3
<1> HIDE DEF B
<1>6. Request = {x \in unsent : Cardinality(B(x)) < NumSamples}
  BY DEF Request, B
<1>7. QED
  BY <1>4, <1>5, <1>6

\* The samples the loop has gone past, when it is at sample n of series i.
Past(q, i, n) ==
  {x \in SamplesOf(q) : \E k \in DOMAIN q : \E p \in DOMAIN q[k].points :
     x = SampleAt(q, k, p) /\ (k < i \/ (k = i /\ p <= n))}

\* What a place in a list of series holds.
LEMMA SeriesTypes ==
  ASSUME NEW q \in SeriesSeq, NEW k \in DOMAIN q
  PROVE  /\ Len(q) \in Nat /\ DOMAIN q = 1..Len(q) /\ k \in Nat
         /\ q[k] = [labels |-> q[k].labels, points |-> q[k].points]
         /\ q[k].labels \in Series /\ q[k].labels \in Nat
         /\ q[k].points \in Seq(Times) /\ Len(q[k].points) \in Nat
         /\ DOMAIN q[k].points = 1..Len(q[k].points)
         /\ \A p \in DOMAIN q[k].points : p \in Nat /\ q[k].points[p] \in Nat
<1>1. Len(q) \in Nat /\ DOMAIN q = 1..Len(q) /\ q[k] \in [labels : Series, points : Seq(Times)]
  <2> DEFINE S == [labels : Series, points : Seq(Times)]
  <2>1. q \in Seq(S)
    BY DEF SeriesSeq
  <2> HIDE DEF S
  <2>2. Len(q) \in Nat /\ DOMAIN q = 1..Len(q)
    BY <2>1
  <2>3. q[k] \in S
    BY <2>1, <2>2
  <2>4. QED
    BY <2>2, <2>3 DEF S
<1>2. k \in Nat /\ q[k].labels \in Series /\ q[k].points \in Seq(Times)
  BY <1>1
<1>3. q[k].labels \in Nat
  BY <1>2 DEF Series
<1>4. /\ Len(q[k].points) \in Nat /\ DOMAIN q[k].points = 1..Len(q[k].points)
      /\ \A p \in DOMAIN q[k].points : q[k].points[p] \in Times
  BY <1>2
<1>5. QED
  BY <1>1, <1>2, <1>3, <1>4 DEF Times

\* The order of the samples is the order of their places.
LEMMA OrderOfPlaces ==
  ASSUME NEW q \in SeriesSeq, InOrder(q),
         NEW k \in DOMAIN q, NEW p \in DOMAIN q[k].points,
         NEW l \in DOMAIN q, NEW r \in DOMAIN q[l].points
  PROVE  /\ k < l \/ (k = l /\ p < r) => Before(SampleAt(q, k, p), SampleAt(q, l, r))
         /\ SampleAt(q, k, p) = SampleAt(q, l, r) => k = l /\ p = r
<1>1. k \in Nat /\ l \in Nat /\ p \in Nat /\ r \in Nat
  BY SeriesTypes
<1>2. k < l => q[k].labels < q[l].labels
  BY DEF InOrder
<1>3. l < k => q[l].labels < q[k].labels
  BY DEF InOrder
<1>4. k = l /\ p < r => q[k].points[p] < q[l].points[r]
  BY DEF InOrder, IsAscending
<1>5. k = l /\ r < p => q[l].points[r] < q[k].points[p]
  BY DEF InOrder, IsAscending
<1>6. /\ q[k].labels \in Nat /\ q[l].labels \in Nat
      /\ q[k].points[p] \in Nat /\ q[l].points[r] \in Nat
  BY SeriesTypes
<1>7. k < l \/ (k = l /\ p < r) => Before(SampleAt(q, k, p), SampleAt(q, l, r))
  BY <1>2, <1>4 DEF Before, SampleAt
<1>8. ASSUME SampleAt(q, k, p) = SampleAt(q, l, r) PROVE k = l /\ p = r
  <2>1. q[k].labels = q[l].labels /\ q[k].points[p] = q[l].points[r]
    BY <1>8 DEF SampleAt
  <2>2. k = l
    BY <1>1, <1>2, <1>3, <1>6, <2>1
  <2>3. QED
    BY <1>1, <1>4, <1>5, <1>6, <2>1, <2>2
<1>9. QED
  BY <1>7, <1>8

\* In an ordered list a sample has one place, so it is past when its place is.
LEMMA PastPlace ==
  ASSUME NEW q \in SeriesSeq, InOrder(q), NEW i, NEW n,
         NEW k \in DOMAIN q, NEW p \in DOMAIN q[k].points
  PROVE  /\ SampleAt(q, k, p) \in SamplesOf(q)
         /\ SampleAt(q, k, p) \in Past(q, i, n) <=> k < i \/ (k = i /\ p <= n)
<1>1. SampleAt(q, k, p) \in SamplesOf(q)
  BY InSamplesOf
<1>2. ASSUME SampleAt(q, k, p) \in Past(q, i, n) PROVE k < i \/ (k = i /\ p <= n)
  <2>1. PICK l \in DOMAIN q : \E r \in DOMAIN q[l].points :
          SampleAt(q, k, p) = SampleAt(q, l, r) /\ (l < i \/ (l = i /\ r <= n))
    BY <1>2 DEF Past
  <2>2. PICK r \in DOMAIN q[l].points :
          SampleAt(q, k, p) = SampleAt(q, l, r) /\ (l < i \/ (l = i /\ r <= n))
    BY <2>1
  <2>3. k = l /\ p = r
    BY <2>2, OrderOfPlaces
  <2>4. QED
    BY <2>2, <2>3
<1>3. QED
  BY <1>1, <1>2 DEF Past

\* What the loop has gone past is before the rest.
LEMMA PastIsFirst ==
  ASSUME NEW q \in SeriesSeq, InOrder(q), NEW i \in Nat, NEW n \in Nat,
         NEW x \in Past(q, i, n), NEW y \in SamplesOf(q) \ Past(q, i, n)
  PROVE  Before(x, y)
<1>1. PICK k \in DOMAIN q : \E p \in DOMAIN q[k].points :
        x = SampleAt(q, k, p) /\ (k < i \/ (k = i /\ p <= n))
  BY DEF Past
<1>2. PICK p \in DOMAIN q[k].points :
        x = SampleAt(q, k, p) /\ (k < i \/ (k = i /\ p <= n))
  BY <1>1
<1>3. PICK l \in DOMAIN q : \E r \in DOMAIN q[l].points : y = SampleAt(q, l, r)
  BY InSamplesOf
<1>4. PICK r \in DOMAIN q[l].points : y = SampleAt(q, l, r)
  BY <1>3
<1>5. ~(l < i) /\ ~(l = i /\ r <= n)
  BY <1>4, PastPlace
<1>6. k \in Nat /\ l \in Nat /\ p \in Nat /\ r \in Nat
  BY SeriesTypes
<1>7. k < l \/ (k = l /\ p < r)
  BY <1>2, <1>5, <1>6
<1>8. QED
  BY <1>2, <1>4, <1>7, OrderOfPlaces

\* At the start nothing is past, at the end everything, and the end of a series
\* is the start of the next one.
LEMMA PastBounds ==
  ASSUME NEW q \in SeriesSeq, InOrder(q)
  PROVE  /\ Past(q, 1, 0) = {}
         /\ \A i \in Nat : i > Len(q) => Past(q, i, 0) = SamplesOf(q)
         /\ \A i \in DOMAIN q : Past(q, i + 1, 0) = Past(q, i, Len(q[i].points))
<1>1. Past(q, 1, 0) = {}
  BY SeriesTypes DEF Past
<1>2. ASSUME NEW i \in Nat, i > Len(q) PROVE Past(q, i, 0) = SamplesOf(q)
  <2>1. \A k \in DOMAIN q : k < i
    BY <1>2, SeriesTypes
  <2>2. ASSUME NEW x \in SamplesOf(q) PROVE x \in Past(q, i, 0)
    BY <2>1, InSamplesOf DEF Past
  <2>3. QED
    BY <2>2 DEF Past
<1>3. ASSUME NEW i \in DOMAIN q PROVE Past(q, i + 1, 0) = Past(q, i, Len(q[i].points))
  <2>1. ASSUME NEW k \in DOMAIN q, NEW p \in DOMAIN q[k].points
        PROVE  (k < i + 1 \/ (k = i + 1 /\ p <= 0))
                 <=> (k < i \/ (k = i /\ p <= Len(q[i].points)))
    <3>1. /\ k \in Nat /\ i \in Nat /\ p \in Nat /\ p >= 1
          /\ k = i => p <= Len(q[i].points)
      BY SeriesTypes
    <3>2. QED
      BY <3>1
  <2>2. QED
    BY <2>1 DEF Past
<1>4. QED
  BY <1>1, <1>2, <1>3

NextOf(q, i, n, u) == {SampleAt(q, i, p) : p \in n + 1..n + u}

\* Going on by u samples in a series goes past these, which are u new ones.
LEMMA PastMore ==
  ASSUME NEW q \in SeriesSeq, InOrder(q), NEW i \in DOMAIN q, NEW n \in Nat, NEW u \in Nat,
         n + u <= Len(q[i].points)
  PROVE  /\ Past(q, i, n + u) = Past(q, i, n) \cup NextOf(q, i, n, u)
         /\ NextOf(q, i, n, u) \cap Past(q, i, n) = {}
         /\ NextOf(q, i, n, u) \subseteq SamplesOf(q)
         /\ IsFiniteSet(NextOf(q, i, n, u)) /\ Cardinality(NextOf(q, i, n, u)) = u
<1> DEFINE new == {SampleAt(q, i, p) : p \in n + 1..n + u}
<1>1. Len(q[i].points) \in Nat /\ DOMAIN q[i].points = 1..Len(q[i].points) /\ i \in Nat
  BY SeriesTypes
<1>2. \A p \in n + 1..n + u : p \in DOMAIN q[i].points /\ p \in Nat
  BY <1>1
<1>3. new \subseteq SamplesOf(q)
  BY <1>2, PastPlace
<1>4. new \cap Past(q, i, n) = {}
  <2> SUFFICES ASSUME NEW p \in n + 1..n + u PROVE SampleAt(q, i, p) \notin Past(q, i, n)
    OBVIOUS
  <2>1. ~(i < i \/ (i = i /\ p <= n))
    BY <1>1, <1>2
  <2>2. QED
    BY <1>2, <2>1, PastPlace
<1>5. Past(q, i, n + u) = Past(q, i, n) \cup new
  <2>1. ASSUME NEW k \in DOMAIN q, NEW p \in DOMAIN q[k].points
        PROVE  (k < i \/ (k = i /\ p <= n + u))
                 <=> ((k < i \/ (k = i /\ p <= n)) \/ (k = i /\ p \in n + 1..n + u))
    <3>1. k \in Nat /\ p \in Nat
      BY SeriesTypes
    <3>2. QED
      BY <1>1, <3>1
  <2>2. ASSUME NEW x \in Past(q, i, n + u) PROVE x \in Past(q, i, n) \cup new
    BY <2>1 DEF Past
  <2>3. ASSUME NEW x \in Past(q, i, n) PROVE x \in Past(q, i, n + u)
    BY <2>1 DEF Past
  <2>4. ASSUME NEW p \in n + 1..n + u PROVE SampleAt(q, i, p) \in Past(q, i, n + u)
    <3>1. i < i \/ (i = i /\ p <= n + u)
      BY <1>2
    <3>2. QED
      BY <1>2, <3>1, PastPlace
  <2>5. QED
    BY <2>2, <2>3, <2>4
<1>6. IsFiniteSet(new) /\ Cardinality(new) = u
  <2> DEFINE f == [p \in n + 1..n + u |-> SampleAt(q, i, p)]
  <2>1. IsFiniteSet(n + 1..n + u) /\ Cardinality(n + 1..n + u) = u
    <3>1. n + 1 \in Int /\ n + u \in Int
      OBVIOUS
    <3>2. /\ IsFiniteSet(n + 1..n + u)
          /\ Cardinality(n + 1..n + u) = IF n + 1 > n + u THEN 0 ELSE (n + u) - (n + 1) + 1
      BY <3>1, FS_Interval
    <3>3. QED
      BY <3>2
  <2>2. f \in Surjection(n + 1..n + u, new)
    BY DEF Surjection
  <2>3. \A p, r \in n + 1..n + u : SampleAt(q, i, p) = SampleAt(q, i, r) => p = r
    BY <1>2, OrderOfPlaces
  <2>4. f \in Injection(n + 1..n + u, new)
    BY <2>3 DEF Injection, IsInjective
  <2>5. QED
    BY <2>1, <2>2, <2>4, FS_Surjection
<1>7. new = NextOf(q, i, n, u)
  BY DEF NextOf
<1>8. QED
  BY <1>3, <1>4, <1>5, <1>6, <1>7

\* A request with one more series.
LEMMA OneMoreSeries ==
  ASSUME NEW q \in SeriesSeq, InOrder(q), NEW e \in [labels : Series, points : Seq(Times)],
         \A j \in DOMAIN q : q[j].labels < e.labels, IsAscending(e.points)
  PROVE  /\ Append(q, e) \in SeriesSeq /\ InOrder(Append(q, e)) /\ Append(q, e) # <<>>
         /\ \A j \in DOMAIN Append(q, e) : Append(q, e)[j].labels <= e.labels
         /\ SamplesOf(Append(q, e)) = SamplesOf(q)
              \cup {[series |-> e.labels, time |-> e.points[p]] : p \in DOMAIN e.points}
<1> DEFINE a == Append(q, e)
           n == Len(q)
<1>1. n \in Nat /\ DOMAIN q = 1..n
  BY DEF SeriesSeq
<1>2. a \in SeriesSeq /\ DOMAIN a = 1..n + 1 /\ a # <<>>
  <2> DEFINE S == [labels : Series, points : Seq(Times)]
  <2>1. q \in Seq(S) /\ e \in S
    BY DEF SeriesSeq
  <2> HIDE DEF S
  <2>2. a \in Seq(S) /\ DOMAIN a = 1..n + 1 /\ a # <<>>
    BY <2>1
  <2>3. QED
    BY <2>2 DEF S, SeriesSeq
<1>3. \A k \in 1..n : a[k] = q[k]
  BY <1>1 DEF SeriesSeq
<1>4. a[n + 1] = e
  BY <1>1 DEF SeriesSeq
<1> HIDE DEF a
<1>5. \A k \in DOMAIN a : k \in 1..n \/ k = n + 1
  BY <1>1, <1>2
<1>6. InOrder(a)
  <2>1. ASSUME NEW j \in DOMAIN a, NEW k \in DOMAIN a, j < k
        PROVE  a[j].labels < a[k].labels
    <3>1. j \in 1..n
      BY <1>1, <1>2, <2>1
    <3>2. QED
      BY <1>1, <1>3, <1>4, <1>5, <2>1, <3>1 DEF InOrder
  <2>2. \A j \in DOMAIN a : IsAscending(a[j].points)
    BY <1>1, <1>3, <1>4, <1>5 DEF InOrder
  <2>3. QED
    BY <2>1, <2>2 DEF InOrder
<1>7. SamplesOf(a) = SamplesOf(q)
        \cup {[series |-> e.labels, time |-> e.points[p]] : p \in DOMAIN e.points}
  <2>1. ASSUME NEW x \in SamplesOf(a)
        PROVE  \/ x \in SamplesOf(q)
               \/ \E p \in DOMAIN e.points : x = [series |-> e.labels, time |-> e.points[p]]
    <3>1. PICK k \in DOMAIN a : \E p \in DOMAIN a[k].points : x = SampleAt(a, k, p)
      BY InSamplesOf
    <3>2. CASE k \in 1..n
      <4>1. \E p \in DOMAIN q[k].points : x = SampleAt(q, k, p)
        BY <1>3, <3>1, <3>2 DEF SampleAt
      <4>2. QED
        BY <1>1, <3>2, <4>1, InSamplesOf
    <3>3. CASE k = n + 1
      BY <1>4, <3>1, <3>3 DEF SampleAt
    <3>4. QED
      BY <1>5, <3>2, <3>3
  <2>2. ASSUME NEW x \in SamplesOf(q) PROVE x \in SamplesOf(a)
    <3>1. PICK k \in DOMAIN q : \E p \in DOMAIN q[k].points : x = SampleAt(q, k, p)
      BY InSamplesOf
    <3>2. k \in DOMAIN a /\ a[k] = q[k]
      BY <1>1, <1>2, <1>3
    <3>3. \E p \in DOMAIN a[k].points : x = SampleAt(a, k, p)
      BY <3>1, <3>2 DEF SampleAt
    <3>4. QED
      BY <3>2, <3>3, InSamplesOf
  <2>3. ASSUME NEW p \in DOMAIN e.points
        PROVE  [series |-> e.labels, time |-> e.points[p]] \in SamplesOf(a)
    <3>1. n + 1 \in DOMAIN a
      BY <1>1, <1>2
    <3>2. p \in DOMAIN a[n + 1].points
           /\ [series |-> e.labels, time |-> e.points[p]] = SampleAt(a, n + 1, p)
      BY <1>4 DEF SampleAt
    <3>3. QED
      BY <3>1, <3>2, InSamplesOf
  <2>4. QED
    BY <2>1, <2>2, <2>3
<1>8. \A j \in DOMAIN a : a[j].labels <= e.labels
  <2>1. e.labels \in Nat /\ \A j \in DOMAIN q : q[j].labels \in Nat
    BY SeriesTypes DEF Series
  <2>2. QED
    BY <1>1, <1>3, <1>4, <1>5, <2>1
<1>9. QED
  BY <1>2, <1>6, <1>7, <1>8 DEF a

\* The locals of the loop.
LocalsOK(v) ==
  v \in [i : Nat, sampleIndex : Nat, numSamples : Nat, requestSeries : SeriesSeq]

\* A round takes what fits, or what is left of the series, as a new series of the
\* request: a series goes on only in a request that is empty.
LEMMA Taken ==
  ASSUME series \in SeriesSeq, NEW v, LocalsOK(v), v.i \in DOMAIN series,
         v.sampleIndex < Len(series[v.i].points), v.numSamples < NumSamples,
         v.sampleIndex = 0 \/ v.requestSeries = <<>>
  PROVE  \E u \in Nat :
           /\ u # 0 /\ v.sampleIndex + u <= Len(series[v.i].points)
           /\ v.numSamples + u <= NumSamples
           /\ v.numSamples + u = NumSamples \/ v.sampleIndex + u = Len(series[v.i].points)
           /\ TakeSamples(v) =
                [i |-> v.i, sampleIndex |-> v.sampleIndex + u,
                 numSamples |-> v.numSamples + u,
                 requestSeries |-> Append(v.requestSeries,
                   [labels |-> series[v.i].labels,
                    points |-> SubSeq(series[v.i].points, v.sampleIndex + 1,
                                      v.sampleIndex + u)])]
<1> DEFINE points == series[v.i].points
           labels == series[v.i].labels
           u == MinOf({NumSamples - v.numSamples, Len(points) - v.sampleIndex})
           some == SubSeq(points, v.sampleIndex + 1, v.sampleIndex + u)
           new == [labels |-> labels, points |-> <<>>]
           open == Append(v.requestSeries, new)
<1>1. /\ points \in Seq(Times) /\ Len(points) \in Nat /\ labels \in Series
      /\ v.sampleIndex \in Nat /\ v.numSamples \in Nat /\ v.requestSeries \in SeriesSeq
      /\ v.i \in Nat
  BY SeriesTypes DEF LocalsOK
<1>2. /\ NumSamples - v.numSamples \in Nat /\ NumSamples - v.numSamples # 0
      /\ Len(points) - v.sampleIndex \in Nat /\ Len(points) - v.sampleIndex # 0
  <2>1. NumSamples \in Nat
    BY ConstantsAssumption
  <2> HIDE DEF points
  <2>2. v.numSamples < NumSamples /\ v.sampleIndex < Len(points)
    BY DEF points
  <2>3. QED
    BY <1>1, <2>1, <2>2, PositiveRest
<1>3. /\ u \in Nat /\ u # 0
      /\ u <= NumSamples - v.numSamples /\ u <= Len(points) - v.sampleIndex
      /\ u = NumSamples - v.numSamples \/ u = Len(points) - v.sampleIndex
  BY <1>2, PairMin
<1> HIDE DEF u
<1>4. /\ v.sampleIndex + u <= Len(points) /\ v.numSamples + u <= NumSamples
      /\ v.numSamples + u = NumSamples \/ v.sampleIndex + u = Len(points)
  <2>1. ASSUME NEW a \in Nat, NEW b \in Nat, u <= b - a
        PROVE  a + u <= b /\ (u = b - a => a + u = b)
    BY <1>3, <2>1
  <2>2. v.sampleIndex + u <= Len(points)
          /\ (u = Len(points) - v.sampleIndex => v.sampleIndex + u = Len(points))
    BY <1>1, <1>3, <2>1
  <2>3. v.numSamples + u <= NumSamples
          /\ (u = NumSamples - v.numSamples => v.numSamples + u = NumSamples)
    BY <1>1, <1>3, <2>1, ConstantsAssumption
  <2>4. QED
    BY <1>3, <2>2, <2>3
<1>5. OpenSeries(v) = open
  BY DEF OpenSeries
<1>6. some \in Seq(Times)
  BY <1>1, <1>3, <1>4, SMTT(30)
<1>7. points # <<>>
  BY <1>1
<1> HIDE DEF some
<1>8. [open EXCEPT ![Len(open)].points = @ \o some]
        = Append(v.requestSeries, [labels |-> labels, points |-> some])
  <2> DEFINE S == [labels : Series, points : Seq(Times)]
             rs == v.requestSeries
  <2>1. new \in S /\ [labels |-> labels, points |-> some] \in S /\ <<>> \o some = some
    BY <1>1, <1>6
  <2>2. rs \in Seq(S)
    BY <1>1 DEF SeriesSeq
  <2> HIDE DEF S, rs
  <2>3. /\ open \in Seq(S) /\ Len(open) = Len(rs) + 1 /\ Len(rs) \in Nat
        /\ open[Len(rs) + 1] = new /\ DOMAIN open = 1..Len(rs) + 1
        /\ \A k \in 1..Len(rs) : open[k] = rs[k]
    BY <2>1, <2>2 DEF rs
  <2> HIDE DEF open
  <2> DEFINE l == [open EXCEPT ![Len(open)].points = @ \o some]
             r == Append(rs, [labels |-> labels, points |-> some])
  <2>4. l[Len(rs) + 1] = [new EXCEPT !.points = @ \o some]
    BY <2>3
  <2>5. [new EXCEPT !.points = @ \o some] = [labels |-> labels, points |-> some]
    BY <2>1
  <2>6. DOMAIN l = 1..Len(rs) + 1 /\ l = [k \in DOMAIN open |-> l[k]]
    BY <2>3
  <2>7. \A k \in 1..Len(rs) : l[k] = rs[k]
    BY <2>3
  <2>8. /\ DOMAIN r = 1..Len(rs) + 1 /\ r = [k \in 1..Len(rs) + 1 |-> r[k]]
        /\ \A k \in 1..Len(rs) : r[k] = rs[k]
        /\ r[Len(rs) + 1] = [labels |-> labels, points |-> some]
    BY <2>1, <2>2
  <2> HIDE DEF l, r
  <2>9. ASSUME NEW k \in 1..Len(rs) + 1 PROVE l[k] = r[k]
    <3>1. k \in 1..Len(rs) \/ k = Len(rs) + 1
      BY <2>3
    <3>2. CASE k \in 1..Len(rs)
      BY <2>7, <2>8, <3>2
    <3>3. CASE k = Len(rs) + 1
      BY <2>4, <2>5, <2>8, <3>3
    <3>4. QED
      BY <3>1, <3>2, <3>3
  <2>10. l = r
    BY <2>3, <2>6, <2>8, <2>9
  <2>11. QED
    BY <2>10 DEF l, r, rs
<1>9. TakeSamples(v) = [v EXCEPT !.numSamples = @ + u, !.sampleIndex = @ + u,
                                 !.requestSeries = Append(v.requestSeries,
                                    [labels |-> labels, points |-> some])]
  BY <1>5, <1>7, <1>8 DEF TakeSamples, u, some
<1>10. TakeSamples(v) = [i |-> v.i, sampleIndex |-> v.sampleIndex + u,
                         numSamples |-> v.numSamples + u,
                         requestSeries |-> Append(v.requestSeries,
                                    [labels |-> labels, points |-> some])]
  BY <1>9 DEF LocalsOK
<1>11. QED
  BY <1>3, <1>4, <1>10 DEF some

PastNow(v) == Past(series, v.i, v.sampleIndex)

\* The loop is at a sample, at a series without samples, or at the end.
AtSample(v) ==
  /\ v.i \in 1..Len(series) + 1
  /\ v.i > Len(series) => v.sampleIndex = 0
  /\ v.i <= Len(series) =>
       \/ v.sampleIndex < Len(series[v.i].points)
       \/ v.sampleIndex = 0 /\ series[v.i].points = <<>>

\* What it has gone past was sent or is in the request, what is ahead was not sent.
CutAt(v) ==
  /\ SamplesOf(series) \ PastNow(v) \subseteq unsent
  /\ unsent \subseteq SamplesOf(series)
  /\ SamplesOf(v.requestSeries) = unsent \cap PastNow(v)
  /\ Cardinality(SamplesOf(v.requestSeries)) = v.numSamples /\ v.numSamples <= NumSamples
  /\ InOrder(v.requestSeries)

\* The request has room, and what is ahead is of series it does not have.
HasRoom(v) ==
  /\ v.numSamples < NumSamples /\ v.i <= Len(series)
  /\ v.sampleIndex = 0 \/ v.requestSeries = <<>>
  /\ \A j \in DOMAIN v.requestSeries : \A k \in DOMAIN series :
       v.i <= k => v.requestSeries[j].labels < series[k].labels

\* Going on to the next series changes nothing but the place.
LEMMA NextSeriesKeeps ==
  ASSUME series \in SeriesSeq, InOrder(series), NEW v, LocalsOK(v),
         v.i \in DOMAIN series, v.sampleIndex <= Len(series[v.i].points), CutAt(v)
  PROVE  LET w == NextSeries(v) IN
           /\ LocalsOK(w) /\ AtSample(w) /\ CutAt(w)
           /\ w.numSamples = v.numSamples /\ w.requestSeries = v.requestSeries
           /\ v.sampleIndex = Len(series[v.i].points) => w.sampleIndex = 0 /\ w.i = v.i + 1
           /\ v.sampleIndex # Len(series[v.i].points) => w = v
<1> DEFINE n == Len(series[v.i].points)
           w == NextSeries(v)
<1>1. /\ Len(series) \in Nat /\ DOMAIN series = 1..Len(series)
      /\ v.i \in Nat /\ v.sampleIndex \in Nat /\ n \in Nat
  BY SeriesTypes DEF LocalsOK
<1>2. CASE v.sampleIndex = n
  <2>1. w = [v EXCEPT !.i = @ + 1, !.sampleIndex = 0]
    BY <1>2 DEF NextSeries
  <2>2. /\ w.i = v.i + 1 /\ w.sampleIndex = 0 /\ w.numSamples = v.numSamples
        /\ w.requestSeries = v.requestSeries /\ LocalsOK(w)
    <3>1. w = [i |-> v.i + 1, sampleIndex |-> 0, numSamples |-> v.numSamples,
               requestSeries |-> v.requestSeries]
      BY <2>1 DEF LocalsOK
    <3>2. v.i + 1 \in Nat /\ v.numSamples \in Nat /\ v.requestSeries \in SeriesSeq
      BY <1>1 DEF LocalsOK
    <3> HIDE DEF w
    <3>3. QED
      BY <3>1, <3>2 DEF LocalsOK
  <2> HIDE DEF w
  <2>3. PastNow(w) = PastNow(v)
    BY <1>2, <2>2, PastBounds DEF PastNow
  <2>4. CutAt(w)
    BY <2>2, <2>3 DEF CutAt
  <2>5. AtSample(w)
    <3>1. w.i <= Len(series) => series[w.i].points \in Seq(Times)
      BY <1>1, <2>2, SeriesTypes
    <3>2. w.i <= Len(series) => 0 < Len(series[w.i].points) \/ series[w.i].points = <<>>
      BY <3>1
    <3>3. QED
      BY <1>1, <2>2, <3>2 DEF AtSample
  <2>6. QED
    BY <1>2, <2>2, <2>4, <2>5 DEF w
<1>3. CASE v.sampleIndex # n
  <2>1. w = v
    BY <1>3 DEF NextSeries
  <2>2. v.sampleIndex < n
    BY <1>1, <1>3
  <2>3. AtSample(v)
    BY <1>1, <2>2 DEF AtSample
  <2>4. QED
    BY <1>3, <2>1, <2>3
<1>4. QED
  BY <1>2, <1>3

\* A part of a series.
LEMMA Part ==
  ASSUME NEW s \in Seq(Times), IsAscending(s), NEW n \in Nat, NEW u \in Nat,
         n + u <= Len(s)
  PROVE  LET some == SubSeq(s, n + 1, n + u) IN
           /\ some \in Seq(Times) /\ IsAscending(some) /\ DOMAIN some = 1..u
           /\ \A p \in 1..u : some[p] = s[n + p]
<1> DEFINE some == SubSeq(s, n + 1, n + u)
<1>1. Len(s) \in Nat /\ DOMAIN s = 1..Len(s)
  OBVIOUS
<1>2. some \in Seq(Times) /\ DOMAIN some = 1..u /\ \A p \in 1..u : some[p] = s[n + p]
  BY <1>1
<1>3. \A p \in 1..u : n + p \in DOMAIN s
  BY <1>1
<1> HIDE DEF some
<1>4. IsAscending(some)
  <2> SUFFICES ASSUME NEW j \in 1..u, NEW k \in 1..u, j < k PROVE some[j] < some[k]
    BY <1>2 DEF IsAscending
  <2>1. n + j < n + k
    OBVIOUS
  <2>2. QED
    BY <1>2, <1>3, <2>1 DEF IsAscending
<1>5. QED
  BY <1>2, <1>4 DEF some

\* Taking samples puts the next ones of unsent into the request.
LEMMA TakeSamplesCuts ==
  ASSUME series \in SeriesSeq, InOrder(series), unsent \subseteq Samples,
         NEW v, LocalsOK(v), CutAt(v), HasRoom(v),
         v.i \in DOMAIN series, v.sampleIndex < Len(series[v.i].points)
  PROVE  LET t == TakeSamples(v) IN
           /\ LocalsOK(t) /\ CutAt(t) /\ t.i = v.i
           /\ t.sampleIndex <= Len(series[v.i].points)
           /\ t.numSamples = NumSamples \/ t.sampleIndex = Len(series[v.i].points)
           /\ \A j \in DOMAIN t.requestSeries :
                t.requestSeries[j].labels <= series[v.i].labels
<1> DEFINE points == series[v.i].points
           labels == series[v.i].labels
           t == TakeSamples(v)
           n == v.sampleIndex
<1>1. /\ points \in Seq(Times) /\ Len(points) \in Nat /\ labels \in Series
      /\ DOMAIN points = 1..Len(points)
      /\ n \in Nat /\ v.numSamples \in Nat /\ v.requestSeries \in SeriesSeq /\ v.i \in Nat
  BY SeriesTypes DEF LocalsOK
<1>2. PICK u \in Nat :
        /\ n + u <= Len(points) /\ v.numSamples + u <= NumSamples
        /\ v.numSamples + u = NumSamples \/ n + u = Len(points)
        /\ t = [i |-> v.i, sampleIndex |-> n + u, numSamples |-> v.numSamples + u,
                requestSeries |-> Append(v.requestSeries,
                  [labels |-> labels, points |-> SubSeq(points, n + 1, n + u)])]
  BY Taken DEF HasRoom
<1> DEFINE e == [labels |-> labels, points |-> SubSeq(points, n + 1, n + u)]
           new == {SampleAt(series, v.i, p) : p \in n + 1..n + u}
<1>3. /\ e.points \in Seq(Times) /\ IsAscending(e.points) /\ DOMAIN e.points = 1..u
      /\ \A p \in 1..u : e.points[p] = points[n + p]
  <2>1. IsAscending(points)
    BY DEF InOrder
  <2> DEFINE some == SubSeq(points, n + 1, n + u)
  <2> HIDE DEF points, n
  <2>2. /\ some \in Seq(Times) /\ IsAscending(some) /\ DOMAIN some = 1..u
        /\ \A p \in 1..u : some[p] = points[n + p]
    BY <1>1, <1>2, <2>1, Part
  <2> HIDE DEF some
  <2>3. e.points = some
    BY DEF some
  <2>4. QED
    BY <2>2, <2>3
<1>4. e \in [labels : Series, points : Seq(Times)] /\ e.labels = labels
  BY <1>1, <1>3
<1>5. {[series |-> e.labels, time |-> e.points[p]] : p \in DOMAIN e.points} = new
  <2>1. ASSUME NEW p \in 1..u
        PROVE  [series |-> labels, time |-> e.points[p]] \in new
    <3>1. n + p \in n + 1..n + u
      BY <1>1, <1>2
    <3>2. [series |-> labels, time |-> e.points[p]] = SampleAt(series, v.i, n + p)
      BY <1>3 DEF SampleAt
    <3>3. QED
      BY <3>1, <3>2
  <2>2. ASSUME NEW p \in n + 1..n + u
        PROVE  \E r \in 1..u : [series |-> labels, time |-> e.points[r]]
                                 = SampleAt(series, v.i, p)
    <3>1. p - n \in 1..u /\ n + (p - n) = p
      <4>1. n \in Nat /\ u \in Nat
        BY <1>1, <1>2
      <4> HIDE DEF n
      <4>2. QED
        BY <4>1
    <3>2. e.points[p - n] = points[p]
      BY <1>3, <3>1
    <3>3. QED
      BY <3>1, <3>2 DEF SampleAt
  <2> HIDE DEF e
  <2>3. QED
    BY <1>3, <1>4, <2>1, <2>2
<1> HIDE DEF e, t
<1>6. \A j \in DOMAIN v.requestSeries : v.requestSeries[j].labels < e.labels
  BY <1>1, <1>4 DEF HasRoom
<1>7. /\ t.requestSeries \in SeriesSeq /\ InOrder(t.requestSeries)
      /\ \A j \in DOMAIN t.requestSeries : t.requestSeries[j].labels <= labels
      /\ SamplesOf(t.requestSeries) = SamplesOf(v.requestSeries) \cup new
  <2>1. t.requestSeries = Append(v.requestSeries, e)
    BY <1>2 DEF e
  <2>2. InOrder(v.requestSeries)
    BY DEF CutAt
  <2>3. QED
    BY <1>1, <1>3, <1>4, <1>5, <1>6, <2>1, <2>2, OneMoreSeries
<1>8. t.i = v.i /\ t.sampleIndex = n + u /\ t.numSamples = v.numSamples + u /\ LocalsOK(t)
  <2>1. t.i = v.i /\ t.sampleIndex = n + u /\ t.numSamples = v.numSamples + u
    BY <1>2
  <2>2. t = [i |-> t.i, sampleIndex |-> t.sampleIndex, numSamples |-> t.numSamples,
             requestSeries |-> t.requestSeries]
    BY <1>2
  <2>3. QED
    BY <1>1, <1>2, <1>7, <2>1, <2>2 DEF LocalsOK
<1>9. /\ PastNow(t) = PastNow(v) \cup new /\ new \cap PastNow(v) = {}
      /\ new \subseteq SamplesOf(series) /\ IsFiniteSet(new) /\ Cardinality(new) = u
  <2>1. new = NextOf(series, v.i, n, u)
    BY DEF NextOf
  <2>2. /\ Past(series, v.i, n + u) = Past(series, v.i, n) \cup NextOf(series, v.i, n, u)
        /\ NextOf(series, v.i, n, u) \cap Past(series, v.i, n) = {}
        /\ NextOf(series, v.i, n, u) \subseteq SamplesOf(series)
        /\ IsFiniteSet(NextOf(series, v.i, n, u)) /\ Cardinality(NextOf(series, v.i, n, u)) = u
    BY <1>1, <1>2, PastMore
  <2> HIDE DEF new
  <2>3. QED
    BY <1>8, <2>1, <2>2 DEF PastNow
<1> HIDE DEF new
<1>10. SamplesOf(t.requestSeries) = unsent \cap PastNow(t)
  BY <1>7, <1>9 DEF CutAt
<1>11. Cardinality(SamplesOf(t.requestSeries)) = t.numSamples
  <2>1. IsFiniteSet(SamplesOf(v.requestSeries))
    <3>1. SamplesOf(v.requestSeries) \subseteq Samples
      BY DEF CutAt
    <3>2. QED
      BY <3>1, SamplesFinite, FS_Subset
  <2>2. SamplesOf(v.requestSeries) \cap new = {}
    BY <1>9 DEF CutAt
  <2>3. Cardinality(SamplesOf(v.requestSeries)) = v.numSamples
    BY DEF CutAt
  <2>4. Cardinality(SamplesOf(v.requestSeries) \cup new) = v.numSamples + u - Cardinality({})
    BY <1>9, <2>1, <2>2, <2>3, FS_Union
  <2>5. Cardinality({}) = 0
    BY FS_EmptySet
  <2>6. QED
    BY <1>1, <1>7, <1>8, <2>4, <2>5
<1>12. CutAt(t)
  <2>1. SamplesOf(series) \ PastNow(t) \subseteq unsent /\ unsent \subseteq SamplesOf(series)
    BY <1>9 DEF CutAt
  <2>2. t.numSamples <= NumSamples
    BY <1>2, <1>8
  <2>3. QED
    BY <1>7, <1>10, <1>11, <2>1, <2>2 DEF CutAt
<1>13. QED
  BY <1>2, <1>7, <1>8, <1>12 DEF t

\* After a round the request is to be sent, or has room.
LEMMA Round ==
  ASSUME series \in SeriesSeq, InOrder(series), unsent \subseteq Samples,
         NEW v, LocalsOK(v), AtSample(v), CutAt(v), HasRoom(v)
  PROVE  LET w == NextSeries(TakeSamples(v)) IN
           /\ LocalsOK(w) /\ AtSample(w) /\ CutAt(w)
           /\ SendWhenFull(w) \/ HasRoom(w)
<1> DEFINE points == series[v.i].points
           t == TakeSamples(v)
           w == NextSeries(t)
<1>1. /\ v.i \in DOMAIN series /\ v.i \in Nat /\ Len(series) \in Nat
      /\ DOMAIN series = 1..Len(series) /\ points \in Seq(Times) /\ Len(points) \in Nat
      /\ v.numSamples \in Nat
  <2>1. v.i \in DOMAIN series /\ v.i \in Nat /\ v.numSamples \in Nat
    BY DEF SeriesSeq, AtSample, HasRoom, LocalsOK
  <2>2. QED
    BY <2>1, SeriesTypes
<1>2. CASE v.sampleIndex < Len(points)
  <2>1. /\ LocalsOK(t) /\ CutAt(t) /\ t.i = v.i /\ t.sampleIndex <= Len(points)
        /\ t.numSamples = NumSamples \/ t.sampleIndex = Len(points)
        /\ \A j \in DOMAIN t.requestSeries :
             t.requestSeries[j].labels <= series[v.i].labels
    BY <1>1, <1>2, TakeSamplesCuts
  <2> HIDE DEF t
  <2>2. /\ LocalsOK(w) /\ AtSample(w) /\ CutAt(w)
        /\ w.numSamples = t.numSamples /\ w.requestSeries = t.requestSeries
        /\ t.sampleIndex = Len(points) => w.sampleIndex = 0 /\ w.i = v.i + 1
    BY <1>1, <2>1, NextSeriesKeeps
  <2> HIDE DEF w
  <2>3. CASE w.numSamples = NumSamples
    BY <2>2, <2>3 DEF SendWhenFull, w, t
  <2>4. CASE w.numSamples # NumSamples
    <3>1. w.sampleIndex = 0 /\ w.i = v.i + 1
      BY <2>1, <2>2, <2>4
    <3>2. w.numSamples < NumSamples
      BY <2>2, <2>4, ConstantsAssumption DEF CutAt, LocalsOK
    <3>3. ASSUME NEW j \in DOMAIN w.requestSeries, NEW k \in DOMAIN series, w.i <= k
          PROVE  w.requestSeries[j].labels < series[k].labels
      <4>1. v.i < k
        BY <1>1, <3>1, <3>3
      <4>2. series[v.i].labels < series[k].labels
        BY <1>1, <4>1 DEF InOrder
      <4>3. w.requestSeries[j].labels <= series[v.i].labels
        BY <2>1, <2>2
      <4>4. /\ series[v.i].labels \in Nat /\ series[k].labels \in Nat
            /\ w.requestSeries[j].labels \in Nat
        <5>1. w.requestSeries \in SeriesSeq
          BY <2>2 DEF LocalsOK
        <5>2. QED
          BY <1>1, <5>1, SeriesTypes
      <4>5. QED
        BY <4>2, <4>3, <4>4
    <3>4. w.i > Len(series) \/ w.i <= Len(series)
      BY <1>1, <3>1
    <3>5. QED
      BY <2>2, <3>1, <3>2, <3>3, <3>4 DEF SendWhenFull, HasRoom, w, t
  <2>5. QED
    BY <2>2, <2>3, <2>4 DEF w, t
<1>3. CASE ~(v.sampleIndex < Len(points))
  <2>1. v.sampleIndex = 0 /\ points = <<>>
    BY <1>1, <1>3 DEF AtSample, HasRoom
  <2>2. t = v /\ Len(points) = 0
    BY <2>1 DEF TakeSamples
  <2>3. v.sampleIndex <= Len(points) /\ v.sampleIndex = Len(points)
    BY <2>1, <2>2
  <2> HIDE DEF t
  <2>4. /\ LocalsOK(w) /\ AtSample(w) /\ CutAt(w)
        /\ w.numSamples = v.numSamples /\ w.requestSeries = v.requestSeries
        /\ w.sampleIndex = 0 /\ w.i = v.i + 1
    BY <1>1, <2>2, <2>3, NextSeriesKeeps
  <2> HIDE DEF w
  <2>5. ASSUME NEW j \in DOMAIN w.requestSeries, NEW k \in DOMAIN series, w.i <= k
        PROVE  w.requestSeries[j].labels < series[k].labels
    <3>1. v.i <= k
      BY <1>1, <2>4, <2>5
    <3>2. QED
      BY <2>4, <3>1 DEF HasRoom
  <2>6. w.i > Len(series) \/ w.i <= Len(series)
    BY <1>1, <2>4
  <2>7. w.numSamples < NumSamples
    BY <2>4 DEF HasRoom
  <2>8. QED
    BY <2>4, <2>5, <2>6, <2>7 DEF SendWhenFull, HasRoom, w, t
<1>4. QED
  BY <1>2, <1>3

LoopInv ==
  /\ series \in SeriesSeq /\ InOrder(series) /\ LocalsOK(locals) /\ inRequest \in BOOLEAN
  /\ pc # "send" => locals = LoopStart /\ ~inRequest
  /\ pc = "send" =>
       /\ AtSample(locals) /\ CutAt(locals)
       /\ inRequest => SendWhenFull(locals)
       /\ ~inRequest => HasRoom(locals)

\* The request of the loop is the one RemoteWrite takes, and the last one of the
\* loop may be the last one.
LEMMA RequestOfLoop ==
  ASSUME unsent \subseteq Samples, LoopInv, inRequest
  PROVE  /\ pc = "send" /\ SamplesOf(locals.requestSeries) = Request
         /\ MayEnd(locals.i > Len(series))
<1> DEFINE R == SamplesOf(locals.requestSeries)
<1>1. /\ pc = "send" /\ AtSample(locals) /\ CutAt(locals) /\ SendWhenFull(locals)
      /\ series \in SeriesSeq /\ InOrder(series) /\ LocalsOK(locals)
  BY DEF LoopInv
<1>2. locals.i \in Nat /\ locals.sampleIndex \in Nat /\ R \subseteq unsent
  BY <1>1 DEF LocalsOK, CutAt
<1>3. \A x \in R : \A y \in unsent \ R : Before(x, y)
  <2> SUFFICES ASSUME NEW x \in R, NEW y \in unsent \ R PROVE Before(x, y)
    OBVIOUS
  <2>1. x \in PastNow(locals) /\ y \in SamplesOf(series) \ PastNow(locals)
    BY <1>1 DEF CutAt
  <2>2. QED
    BY <1>1, <1>2, <2>1, PastIsFirst DEF PastNow
<1>4. locals.i > Len(series) => R = unsent
  <2>1. locals.i > Len(series) => PastNow(locals) = SamplesOf(series)
    BY <1>1, <1>2, PastBounds DEF PastNow, AtSample
  <2>2. QED
    BY <1>1, <2>1 DEF CutAt
<1>5. /\ Cardinality(R) = NumSamples \/ locals.i > Len(series)
      /\ Cardinality(R) <= NumSamples
  BY <1>1 DEF CutAt, SendWhenFull
<1>6. Request = R
  BY <1>2, <1>3, <1>4, <1>5, FirstIsRequest
<1>7. MayEnd(locals.i > Len(series))
  BY <1>4, <1>5, <1>6 DEF MayEnd
<1>8. QED
  BY <1>1, <1>6, <1>7

\* Where the loop begins.
LEMMA AtLoopStart ==
  /\ LocalsOK(LoopStart) /\ <<>> \in SeriesSeq /\ InOrder(<<>>) /\ SamplesOf(<<>>) = {}
  /\ \A j \in DOMAIN LoopStart.requestSeries : FALSE
BY DEF LocalsOK, LoopStart, SeriesSeq, InOrder, SamplesOf

\* Every step of the writer with its loop is a step of RemoteWrite, or leaves its
\* variables.
LEMMA LoopStep == WriterOK /\ LoopInv /\ [LoopNext]_<<vars, loopVars>> => [Next]_vars
<1> SUFFICES ASSUME WriterOK, LoopInv, [LoopNext]_<<vars, loopVars>> PROVE [Next]_vars
  OBVIOUS
<1>1. CASE Outside \/ Routine \/ Restart
  BY <1>1 DEF Next
<1>2. CASE ReadSeries
  BY <1>2 DEF ReadSeries, Next
<1>3. CASE Iterate
  BY <1>3 DEF Iterate
<1>4. CASE WriteRequest
  <2>1. /\ SamplesOf(locals.requestSeries) = Request
        /\ MayEnd(locals.i > Len(series)) /\ (locals.i > Len(series)) \in BOOLEAN
    BY <1>4, RequestOfLoop DEF WriteRequest, WriterOK
  <2>2. \/ Accepted(Request, locals.i > Len(series))
        \/ Refused(Request, locals.i > Len(series))
    BY <1>4, <2>1 DEF WriteRequest
  <2>3. QED
    BY <2>1, <2>2 DEF SendRequest, Next
<1>5. CASE FailRequest
  <2>1. SamplesOf(locals.requestSeries) = Request
    BY <1>5, RequestOfLoop DEF FailRequest, WriterOK
  <2>2. QED
    BY <1>5, <2>1 DEF FailRequest, SendRequest, Next
<1>6. CASE UNCHANGED <<vars, loopVars>>
  BY <1>6
<1>7. QED
  BY <1>1, <1>2, <1>3, <1>4, <1>5, <1>6 DEF LoopNext

\* What the others do leaves the range alone.
LEMMA OthersKeep ==
  ASSUME RunsWhileEnabled, Outside \/ Routine
  PROVE  /\ pc' = "send" <=> pc = "send"
         /\ pc = "send" => unsent' = unsent
<1>1. CASE Outside
  BY <1>1 DEF Outside, AddMetric, Compact, Retain, Update, RunsWhileEnabled,
     requests, sending
<1>2. CASE Routine
  BY <1>2 DEF Routine, GetConfig, Loop, ReadMin, SkipToBlock, SkipToHead, StorePosition,
     Sleep,
     requests, sending
<1>3. QED
  BY <1>1, <1>2

\* Every step keeps the loop's invariant.
LEMMA LoopInductive ==
  StoreOK /\ WriterOK /\ RunsWhileEnabled /\ LoopInv /\ [LoopNext]_<<vars, loopVars>>
    => LoopInv'
<1> SUFFICES ASSUME StoreOK, WriterOK, RunsWhileEnabled, LoopInv,
                    [LoopNext]_<<vars, loopVars>>
             PROVE  LoopInv'
  OBVIOUS
<1>1. CASE (Outside \/ Routine) /\ UNCHANGED loopVars
  BY <1>1, OthersKeep
     DEF LoopInv, AtSample, CutAt, PastNow, HasRoom, SendWhenFull, loopVars
<1>2. CASE ReadSeries
  <2>1. CASE pc' = "sleep" /\ UNCHANGED loopVars
    BY <1>2, <2>1 DEF ReadSeries, ReadRange, LoopInv, loopVars
  <2>2. CASE pc' # "sleep"
    <3>1. /\ pc = "read" /\ series' \in Returned(unsent') /\ hadEmpty' = (series' = <<>>)
          /\ pc' = (IF hadEmpty' THEN "store" ELSE "send")
          /\ unsent' \in {InRange(from, to')} \cup CutShort(InRange(from, to'))
          /\ locals' = locals /\ inRequest' = inRequest
      BY <1>2, <2>2 DEF ReadSeries, ReadRange
    <3>2. locals = LoopStart /\ ~inRequest
      BY <3>1 DEF LoopInv
    <3>3. unsent' \subseteq Samples
      BY <3>1 DEF StoreOK, InRange, CutShort
    <3>4. series' \in SeriesSeq /\ InOrder(series') /\ SamplesOf(series') = unsent'
      BY <3>1, <3>3, ReturnedSeries
    <3>5. CASE series' = <<>>
      <4>1. pc' = "store"
        BY <3>1, <3>5
      <4>2. QED
        BY <3>1, <3>2, <3>4, <4>1, AtLoopStart DEF LoopInv
    <3>6. CASE series' # <<>>
      <4>1. pc' = "send"
        BY <3>1, <3>6
      <4>2. Len(series') \in Nat /\ Len(series') >= 1 /\ DOMAIN series' = 1..Len(series')
        BY <3>4, <3>6 DEF SeriesSeq
      <4>3. series'[1].points \in Seq(Times)
        BY <3>4, <4>2, SeriesTypes
      <4>4. 0 < Len(series'[1].points) \/ series'[1].points = <<>>
        BY <4>3
      <4>5. AtSample(locals)'
        BY <3>1, <3>2, <4>2, <4>4 DEF AtSample, LoopStart
      <4>6. PastNow(locals)' = {}
        BY <3>1, <3>2, <3>4, PastBounds DEF PastNow, LoopStart
      <4>7. CutAt(locals)'
        <5>1. locals'.requestSeries = <<>> /\ locals'.numSamples = 0
          BY <3>1, <3>2 DEF LoopStart
        <5>2. Cardinality({}) = 0 /\ 0 <= NumSamples
          BY FS_EmptySet, ConstantsAssumption
        <5>3. QED
          BY <3>4, <4>6, <5>1, <5>2, AtLoopStart DEF CutAt
      <4>8. HasRoom(locals)'
        BY <3>1, <3>2, <4>2, AtLoopStart, ConstantsAssumption DEF HasRoom, LoopStart
      <4>9. QED
        BY <3>1, <3>2, <3>4, <4>1, <4>5, <4>7, <4>8, AtLoopStart DEF LoopInv
    <3>7. QED
      BY <3>5, <3>6
  <2>3. QED
    BY <1>2, <2>1, <2>2 DEF ReadSeries
<1>3. CASE Iterate
  <2>1. /\ pc = "send" /\ ~inRequest /\ UNCHANGED <<vars, series>>
        /\ locals' = NextSeries(TakeSamples(locals))
        /\ inRequest' = SendWhenFull(locals')
    BY <1>3 DEF Iterate
  <2>2. pc' = pc /\ unsent' = unsent /\ series' = series
    BY <2>1 DEF vars, requests, sending
  <2> DEFINE w == NextSeries(TakeSamples(locals))
  <2>3. LocalsOK(w) /\ AtSample(w) /\ CutAt(w) /\ (SendWhenFull(w) \/ HasRoom(w))
    BY <2>1, Round DEF LoopInv, WriterOK
  <2> HIDE DEF w
  <2>4. locals' = w
    BY <2>1 DEF w
  <2>5. /\ AtSample(locals)' /\ CutAt(locals)' /\ (SendWhenFull(w) <=> SendWhenFull(locals)')
        /\ HasRoom(w) => HasRoom(locals)'
    BY <2>2, <2>3, <2>4 DEF AtSample, CutAt, HasRoom, SendWhenFull, PastNow
  <2>6. inRequest' \in BOOLEAN /\ (inRequest' <=> SendWhenFull(w))
    BY <2>1, <2>2, <2>4 DEF SendWhenFull
  <2>7. QED
    BY <2>1, <2>2, <2>3, <2>4, <2>5, <2>6 DEF LoopInv
<1>4. CASE WriteRequest
  <2> DEFINE R == SamplesOf(locals.requestSeries)
             last == locals.i > Len(series)
  <2>1. /\ inRequest /\ RequestDone(R, last)
        /\ IF last THEN EndLoop
           ELSE /\ locals' = [locals EXCEPT !.numSamples = 0, !.requestSeries = <<>>]
                /\ inRequest' = FALSE /\ UNCHANGED series
    BY <1>4 DEF WriteRequest, Accepted, Refused
  <2>2. CASE last
    BY <2>1, <2>2, AtLoopStart DEF RequestDone, EndLoop, LoopInv
  <2>3. CASE ~last
    <3>1. /\ pc' = "send" /\ unsent' = unsent \ R /\ series' = series /\ ~inRequest'
          /\ inRequest' \in BOOLEAN
          /\ locals' = [locals EXCEPT !.numSamples = 0, !.requestSeries = <<>>]
      BY <2>1, <2>3 DEF RequestDone
    <3>2. /\ AtSample(locals) /\ CutAt(locals) /\ SendWhenFull(locals) /\ LocalsOK(locals)
          /\ series \in SeriesSeq /\ InOrder(series)
      BY <2>1 DEF LoopInv
    <3>3. locals' = [i |-> locals.i, sampleIndex |-> locals.sampleIndex, numSamples |-> 0,
                     requestSeries |-> <<>>]
      BY <3>1, <3>2 DEF LocalsOK
    <3>4. /\ locals.i \in Nat /\ locals.sampleIndex \in Nat
          /\ locals.i <= Len(series)
      BY <2>3, <3>2 DEF LocalsOK, SeriesSeq
    <3>5. LocalsOK(locals') /\ AtSample(locals)' /\ PastNow(locals)' = PastNow(locals)
      BY <3>1, <3>2, <3>3, <3>4, AtLoopStart DEF LocalsOK, AtSample, PastNow
    <3>6. CutAt(locals)'
      <4>1. /\ SamplesOf(series) \ PastNow(locals) \subseteq unsent \ R
            /\ unsent \ R \subseteq SamplesOf(series)
            /\ {} = (unsent \ R) \cap PastNow(locals)
        BY <3>2 DEF CutAt
      <4>2. locals'.requestSeries = <<>> /\ locals'.numSamples = 0
        BY <3>3
      <4>3. Cardinality({}) = 0 /\ 0 <= NumSamples
        BY FS_EmptySet, ConstantsAssumption
      <4>4. QED
        BY <3>1, <3>5, <4>1, <4>2, <4>3, AtLoopStart DEF CutAt
    <3>7. HasRoom(locals)'
      BY <3>1, <3>3, <3>4, ConstantsAssumption DEF HasRoom
    <3>8. QED
      BY <3>1, <3>2, <3>5, <3>6, <3>7 DEF LoopInv
  <2>4. QED
    BY <2>2, <2>3
<1>5. CASE FailRequest
  <2>1. CASE pc' = "send"
    <3>1. UNCHANGED loopVars /\ pc = "send" /\ unsent' = unsent
      BY <1>5, <2>1 DEF FailRequest, Failed
    <3>2. QED
      BY <2>1, <3>1
         DEF LoopInv, AtSample, CutAt, PastNow, HasRoom, SendWhenFull, loopVars
  <2>2. CASE pc' # "send"
    BY <1>5, <2>2, AtLoopStart DEF FailRequest, EndLoop, LoopInv
  <2>3. QED
    BY <2>1, <2>2
<1>6. CASE Restart /\ EndLoop
  BY <1>6, AtLoopStart DEF Restart, EndLoop, LoopInv
<1>7. CASE UNCHANGED <<vars, loopVars>>
  BY <1>7 DEF vars, requests, sending, loopVars, LoopInv, AtSample, CutAt, PastNow, HasRoom,
     SendWhenFull
<1>8. QED
  BY <1>1, <1>2, <1>3, <1>4, <1>5, <1>6, <1>7 DEF LoopNext

LoopTypeInv == TypeInv /\ LoopInv

\* The loop keeps its types and is a RemoteWrite.
LEMMA LoopTyped == LoopSpec => []LoopTypeInv /\ Spec
<1>1. LoopInit => LoopTypeInv /\ Init
  <2> SUFFICES ASSUME LoopInit PROVE LoopTypeInv /\ Init
    OBVIOUS
  <2>1. Init => TypeInv
    BY Initially DEF TypeInv
  <2>2. pc # "send" /\ Init
    BY DEF LoopInit, Init
  <2>3. LoopInv
    BY <2>2, AtLoopStart DEF LoopInit, LoopInv
  <2>4. QED
    BY <2>1, <2>2, <2>3 DEF LoopTypeInv
<1>2. LoopTypeInv /\ [LoopNext]_<<vars, loopVars>> => [Next]_vars /\ LoopTypeInv'
  <2> SUFFICES ASSUME LoopTypeInv, [LoopNext]_<<vars, loopVars>>
               PROVE  [Next]_vars /\ LoopTypeInv'
    OBVIOUS
  <2>1. [Next]_vars
    BY LoopStep DEF LoopTypeInv, TypeInv
  <2>2. TypeInv'
    BY <2>1, StoreInductive, WriterInductive, PositionInductive, FlagsInductive,
       RunningInductive DEF LoopTypeInv, TypeInv
  <2>3. LoopInv'
    BY LoopInductive DEF LoopTypeInv, TypeInv
  <2>4. QED
    BY <2>1, <2>2, <2>3 DEF LoopTypeInv
<1>3. QED
  BY <1>1, <1>2, PTL DEF LoopSpec, Spec

\* The writer with writeRange's loop does what RemoteWrite says: each request the
\* loop makes is the next one, and the loop ends when all of the range was sent.
THEOREM LoopImplements == LoopSpec => ImplementsRemoteWrite
BY LoopTyped, PTL DEF ImplementsRemoteWrite

\* However the series of a range fall into requests, a request has the samples that
\* come next, each once and in order, each series once (writeRange).
THEOREM RequestsCut == LoopSpec => []RequestsAsCut
<1>1. LoopTypeInv => RequestsAsCut
  BY RequestOfLoop
     DEF LoopTypeInv, TypeInv, WriterOK, LoopInv, CutAt, InOrder, IsAscending, RequestsAsCut
<1>2. QED
  BY <1>1, LoopTyped, PTL

\* So what holds of RemoteWrite holds of the writer with its loop.
COROLLARY LoopRoutineRuns == LoopSpec => []RunsWhileEnabled
BY LoopTyped, RoutineRuns, PTL

\* Nothing behind the position was skipped by the writer with its loop.
COROLLARY LoopEverythingWritten == LoopSpec => []NothingSkipped
BY LoopTyped, EverythingWritten, PTL

\* And while nothing fails its loop sends no sample twice.
COROLLARY LoopSentAtMostOnce == LoopSpec => []NoDuplicates
BY LoopTyped, SentAtMostOnce, PTL
=============================================================================
