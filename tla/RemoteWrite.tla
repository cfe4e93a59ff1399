---------------------------- MODULE RemoteWrite ----------------------------
(***************************************************************************)
(* The metrics remote writer (internal/metrics/remote_write.go): one       *)
(* goroutine that reads the samples of the time-series store range by      *)
(* range, sends them to the configured receiver and remembers how far it   *)
(* got, in memory and in the file metrics-lastwrite.                       *)
(*                                                                         *)
(* Beside it run the scrapers, which add samples (metrics.go, AddMetric);  *)
(* the configuration, which changes or removes the receiver; and the       *)
(* store's own compaction and retention, which are external.               *)
(*                                                                         *)
(* Time is counted in the store's unit, one millisecond in the code; 0 is  *)
(* before everything.                                                      *)
(***************************************************************************)
EXTENDS Naturals, FiniteSets

CONSTANTS
  NumSeries,     \* series, numbered in the order the store returns them
  RangeDuration, \* RemoteWrite.RangeDuration
  NumSamples,    \* RequestNumSamples
  NumTries,      \* tries of a request, three in the code
  Receivers,     \* receivers that can be configured
  NoReceiver,    \* the feature is disabled
  Torn,          \* a position file whose writing failed half-way
  MaxTime,       \* bound: the times of samples
  MaxSamples,    \* bound: samples in the store
  MaxFaults,     \* bound: failing requests, reads and writes, and restarts
  MaxBlocks      \* bound: compactions of the head

ASSUME ConstantsAssumption ==
  /\ NumSeries \in Nat \ {0} /\ RangeDuration \in Nat \ {0}
  /\ NumSamples \in Nat \ {0} /\ NumTries \in Nat \ {0}
  /\ NoReceiver \notin Receivers
  /\ Torn \notin Nat
  /\ MaxTime \in Nat \ {0} /\ {MaxSamples, MaxBlocks, MaxFaults} \subseteq Nat

Series == 1..NumSeries
Times == 0..MaxTime
Samples == [series : Series, time : Times \ {0}]

VARIABLES
  samples,   \* the samples in the store
  blocks,    \* its blocks, each with MinTime and MaxTime
  headMin,   \* MinTime of its head
  valid,     \* the end of its blocks, before which it takes no sample
  written,   \* blocks written so far
  receiver,  \* RemoteWrite.Config, and the client made from it
  isRunning, \* RemoteWrite.isRunning
  pc,        \* where writeRoutine is, "off" when there is none
  client,    \* the client it works with
  lastWrite, \* RemoteWrite.LastWrite
  file,      \* metrics-lastwrite; 0 when absent
  hadEmpty,  \* hadEmptyRange
  maxTSDB,   \* what it read of the store's MaxTime
  from, to,  \* rangeStart and rangeEnd
  unsent,    \* samples of the range it has not sent
  try,       \* number of the try
  accepted,  \* samples the receiver has
  refused,   \* samples given up after an error that is not recoverable
  resent,    \* a sample was sent that the receiver had already
  missed,    \* samples the writer passed without having read them
  faults     \* failures so far

store == <<samples, blocks, headMin, valid, written>>
range == <<hadEmpty, maxTSDB, from, to>>
requests == <<unsent, try, accepted, refused, resent>>
sending == <<requests, missed>>
position == <<lastWrite, file>>
configVars == <<receiver, isRunning>>
vars == <<store, configVars, pc, client, position, range, sending, faults>>

MaxOf(S) == CHOOSE x \in S : \A y \in S : y <= x
MinOf(S) == CHOOSE x \in S : \A y \in S : x <= y

TypeOK ==
  /\ headMin \in Times /\ valid \in Times
  /\ lastWrite \in Times /\ maxTSDB \in Times /\ from \in Times /\ to \in Times
  /\ samples \in SUBSET Samples
  /\ blocks \subseteq [min : Times, max : Times]
  /\ written \in 0..MaxBlocks /\ faults \in 0..MaxFaults
  /\ receiver \in Receivers \cup {NoReceiver}
  /\ client \in Receivers \cup {NoReceiver}
  /\ isRunning \in BOOLEAN /\ hadEmpty \in BOOLEAN /\ resent \in BOOLEAN
  /\ pc \in {"off", "config", "loop", "min", "blocks", "head", "read", "send",
             "store", "sleep"}
  /\ file \in Times \cup {Torn}
  /\ unsent \subseteq Samples
  /\ try \in 1..NumTries
  /\ {accepted, refused, missed} \subseteq SUBSET Samples

Init ==
  /\ samples = {} /\ blocks = {} /\ headMin = 0 /\ valid = 0 /\ written = 0
  /\ receiver = NoReceiver /\ isRunning = FALSE
  /\ pc = "off" /\ client = NoReceiver
  /\ lastWrite = 0 /\ file = 0
  /\ hadEmpty = FALSE /\ maxTSDB = 0 /\ from = 0 /\ to = 0
  /\ unsent = {} /\ try = 1 /\ accepted = {} /\ refused = {} /\ resent = FALSE
  /\ missed = {}
  /\ faults = 0

Fault == faults < MaxFaults /\ faults' = faults + 1

-----------------------------------------------------------------------------
(* The store and its scrapers *)

LastOf(s) == MaxOf({0} \cup {x.time : x \in {y \in samples : y.series = s}})

\* The writer is past a time: the range under way begins after it, or was read
\* up to it.
Passed(t) ==
  \/ t <= lastWrite
  \/ pc \in {"blocks", "head", "read"} /\ t < from
  \/ pc \in {"send", "store"} /\ t <= to

\* AddMetric takes the time, then appends and commits, and locks out nobody
\* meanwhile: a sample may be committed after later ones of other series, and
\* when the writer has gone past it.
AddMetric(s, t) ==
  LET new == [series |-> s, time |-> t]
  IN /\ Cardinality(samples) < MaxSamples
     /\ LastOf(s) < t /\ valid <= t
     /\ samples' = samples \cup {new}
     /\ headMin' = IF samples = {} THEN t ELSE MinOf({headMin, t})
     /\ missed' = IF Passed(t) THEN missed \cup {new} ELSE missed
     /\ UNCHANGED <<blocks, valid, written, configVars, pc, client, position, range,
                    requests, faults>>

MaxTimeOfHead == MaxOf({0} \cup {x.time : x \in samples})

MinTimeOfStore ==
  IF blocks = {} THEN headMin ELSE MinOf({b.min : b \in blocks})

\* The older part of the head becomes a block, and then leaves the head, whose
\* MinTime moves at most to its oldest sample.  Between the two questions of
\* skipEmptyRanges, what moves is in none of the answers.
Compact(cut) ==
  /\ written < MaxBlocks
  /\ headMin < cut /\ cut < MaxTimeOfHead
  /\ written' = written + 1 /\ valid' = cut
  /\ blocks' = blocks \cup {[min |-> headMin, max |-> cut]}
  /\ headMin' \in cut..MinOf({x.time : x \in {y \in samples : y.time >= cut}})
  /\ missed' = missed \cup
       {x \in samples : pc = "head" /\ from <= x.time /\ x.time < headMin'}
  /\ UNCHANGED <<samples, configVars, pc, client, position, range, requests,
                 faults>>

\* Retention deletes the oldest block.
Retain ==
  /\ blocks # {}
  /\ LET oldest == CHOOSE b \in blocks : b.min = MinTimeOfStore
     IN /\ blocks' = blocks \ {oldest}
        /\ samples' = {x \in samples : x.time >= oldest.max}
  /\ UNCHANGED <<headMin, valid, written, configVars, pc, client, position, range,
                 sending, faults>>

-----------------------------------------------------------------------------
(* RemoteWrite.Update and Init, under the lock *)

\* An invalid receiver changes nothing, and is not a step.
Update(r) ==
  /\ r # receiver
  /\ receiver' = r
  /\ IF r # NoReceiver /\ ~isRunning
       THEN isRunning' = TRUE /\ pc' = "config"
       ELSE UNCHANGED <<isRunning, pc>>
  /\ UNCHANGED <<store, client, position, range, sending, faults>>

-----------------------------------------------------------------------------
(* writeRoutine *)

\* Mutation: the routine ends without saying that it no longer runs.
GetConfigKeepsRunning ==
  /\ pc = "config"
  /\ pc' = IF receiver = NoReceiver THEN "off" ELSE "loop"
  /\ client' = receiver
  /\ UNCHANGED <<store, configVars, position, range, sending, faults>>

\* getConfig, under the lock: the routine goes on with the current client or ends.
GetConfig ==
  /\ pc = "config"
  /\ IF receiver = NoReceiver
       THEN pc' = "off" /\ isRunning' = FALSE /\ UNCHANGED client
       ELSE pc' = "loop" /\ client' = receiver /\ UNCHANGED isRunning
  /\ UNCHANGED <<store, receiver, position, range, sending, faults>>

\* The loop of Write ends when everything in the store was written.
Loop ==
  /\ pc = "loop"
  /\ maxTSDB' = MaxTimeOfHead
  /\ pc' = IF maxTSDB' > lastWrite THEN "min" ELSE "sleep"
  /\ UNCHANGED <<store, configVars, client, position, hadEmpty, from, to,
                 sending, faults>>

\* Mutation: the range starts at the last position, not after it.
ReadMinInclusive ==
  /\ pc = "min"
  /\ from' = IF hadEmpty THEN lastWrite ELSE MaxOf({lastWrite, MinTimeOfStore})
  /\ pc' = IF hadEmpty THEN "blocks" ELSE "read"
  /\ UNCHANGED <<store, configVars, client, position, hadEmpty, maxTSDB, to,
                 sending, faults>>

\* The range starts after the last position, or where the store starts.
ReadMin ==
  /\ pc = "min"
  /\ from' = IF hadEmpty THEN lastWrite + 1 ELSE MaxOf({lastWrite + 1, MinTimeOfStore})
  /\ pc' = IF hadEmpty THEN "blocks" ELSE "read"
  /\ UNCHANGED <<store, configVars, client, position, hadEmpty, maxTSDB, to,
                 sending, faults>>

\* skipEmptyRanges, first half: the block that holds the time, or the next one.
SkipToBlock ==
  LET ahead == {b \in blocks : from <= b.max}
  IN /\ pc = "blocks"
     /\ IF ahead = {}
          THEN pc' = "head" /\ UNCHANGED from
          ELSE pc' = "read" /\ from' = MaxOf({from, MinOf({b.min : b \in ahead})})
     /\ UNCHANGED <<store, configVars, client, position, hadEmpty, maxTSDB,
                    to, sending, faults>>

\* Second half: no block is ahead, so the head is.
SkipToHead ==
  /\ pc = "head"
  /\ from' = MaxOf({from, headMin})
  /\ pc' = "read"
  /\ UNCHANGED <<store, configVars, client, position, hadEmpty, maxTSDB, to,
                 sending, faults>>

InRange(a, b) == {x \in samples : a <= x.time /\ x.time <= b}

\* What is read of the samples S when the chunks of some series cannot be: each
\* of these ends early, or the series do.
CutShort(S) ==
  {T \in SUBSET S \ {S} :
     \A x \in T, y \in S : y.series = x.series /\ y.time < x.time => y \in T}

\* GetMetricsForTimeRange, which may return series without samples; when it
\* fails Write returns.  A read that fails once the series are gone through is
\* not noticed: what was read passes for the range.
ReadRange ==
  /\ pc = "read"
  /\ to' = MinOf({from + RangeDuration, maxTSDB})
  /\ \/ /\ \/ unsent' = InRange(from, to') /\ UNCHANGED <<missed, faults>>
           \/ /\ unsent' \in CutShort(InRange(from, to')) /\ Fault
              /\ missed' = missed \cup (InRange(from, to') \ unsent')
        /\ hadEmpty' \in BOOLEAN /\ (hadEmpty' => unsent' = {})
        /\ pc' = IF hadEmpty' THEN "store" ELSE "send"
     \/ pc' = "sleep" /\ Fault /\ UNCHANGED <<unsent, hadEmpty, missed>>
  /\ UNCHANGED <<store, configVars, client, position, maxTSDB, from, try,
                 accepted, refused, resent>>

Before(x, y) ==
  x.series < y.series \/ (x.series = y.series /\ x.time < y.time)

\* writeRange fills each request with the next samples in the store's order.
Request ==
  {x \in unsent : Cardinality({y \in unsent : Before(y, x)}) < NumSamples}

\* Whether the request may be the range's last: series without samples may come
\* behind one that is full, and are then a request without samples.
MayEnd(last) ==
  IF last THEN Request = unsent
  ELSE Request # unsent \/ Cardinality(Request) = NumSamples

\* The request is done with, accepted or not; the next one, or the range's end.
RequestDone(request, last) ==
  /\ unsent' = unsent \ request
  /\ try' = 1
  /\ pc' = IF last THEN "store" ELSE "send"

Arrives(request) ==
  /\ accepted' = accepted \cup request
  /\ resent' = (resent \/ request \cap accepted # {})

Accepted(request, last) ==
  /\ pc = "send"
  /\ RequestDone(request, last)
  /\ Arrives(request)
  /\ UNCHANGED <<store, configVars, client, position, range, refused, missed,
                 faults>>

\* An error that cannot be recovered from: the request is skipped.
Refused(request, last) ==
  /\ pc = "send"
  /\ RequestDone(request, last)
  /\ refused' = refused \cup request
  /\ Fault
  /\ UNCHANGED <<store, configVars, client, position, range, accepted, resent,
                 missed>>

\* Mutation: after the last try the writer goes on to the next request.
FailedGoesOn(request) ==
  /\ pc = "send"
  /\ IF try < NumTries
       THEN try' = try + 1 /\ UNCHANGED <<pc, unsent>>
       ELSE RequestDone(request, request = unsent)
  /\ Fault
  /\ UNCHANGED <<store, configVars, client, position, range, accepted,
                 refused, resent, missed>>

\* A recoverable error; the receiver may have the samples all the same.
\* After the last try Write returns, and the whole range is sent again later.
Failed(request) ==
  /\ pc = "send"
  /\ IF try < NumTries
       THEN try' = try + 1 /\ UNCHANGED <<pc, unsent>>
       ELSE try' = 1 /\ pc' = "sleep" /\ unsent' = {}
  /\ Arrives(request) \/ UNCHANGED <<accepted, resent>>
  /\ Fault
  /\ UNCHANGED <<store, configVars, client, position, range, refused, missed>>

\* The position is stored after the range was sent.  A failed write is logged
\* and nothing else: the file keeps the old position or is torn.
StorePosition ==
  /\ pc = "store"
  /\ lastWrite' = to
  /\ \/ file' = to /\ UNCHANGED faults
     \/ file' \in {file, Torn} /\ Fault
  /\ pc' = "loop"
  /\ maxTSDB' = 0 /\ from' = 0 /\ to' = 0
  /\ UNCHANGED <<store, configVars, client, hadEmpty, sending>>

\* Until the next tick of WaitInterval.  A range that was not finished is read
\* again.
Sleep ==
  /\ pc = "sleep"
  /\ pc' = "config"
  /\ hadEmpty' = FALSE /\ maxTSDB' = 0 /\ from' = 0 /\ to' = 0
  /\ missed' = {x \in missed : x.time <= lastWrite}
  /\ UNCHANGED <<store, configVars, client, position, requests, faults>>

-----------------------------------------------------------------------------
\* NewRemoteWrite: a torn file holds no number, or the first digits of one,
\* which is a time before everything.
Restart ==
  /\ lastWrite' = IF file = Torn THEN 0 ELSE file
  /\ Fault
  /\ pc' = "off" /\ isRunning' = FALSE /\ receiver' = NoReceiver
  /\ client' = NoReceiver
  /\ hadEmpty' = FALSE /\ maxTSDB' = 0 /\ from' = 0 /\ to' = 0
  /\ unsent' = {} /\ try' = 1
  /\ missed' = {x \in missed : x.time <= lastWrite'}
  /\ UNCHANGED <<store, file, accepted, refused, resent>>

Outside ==
  \/ \E s \in Series, t \in Times \ {0} : AddMetric(s, t)
  \/ \E cut \in Times : Compact(cut)
  \/ Retain
  \/ \E r \in Receivers \cup {NoReceiver} : Update(r)

\* The routine, but for the range it reads and sends.
Routine ==
  GetConfig \/ Loop \/ ReadMin \/ SkipToBlock \/ SkipToHead \/ StorePosition \/ Sleep

SendRequest ==
  \/ \E last \in BOOLEAN :
       MayEnd(last) /\ (Accepted(Request, last) \/ Refused(Request, last))
  \/ Failed(Request)

Next == Outside \/ Routine \/ ReadRange \/ SendRequest \/ Restart

Spec == Init /\ [][Next]_vars

-----------------------------------------------------------------------------
(* Properties *)

\* Whatever is in the store up to the position was accepted by a receiver or
\* refused for good, through failing requests, torn position files, restarts,
\* and a receiver that comes and goes, across holes, compactions and retention: a
\* range is resent rather than skipped.  The code passes a sample unread in three
\* cases only: one that is committed behind the writer, what a compaction moves
\* between the two questions of skipEmptyRanges, and what a read leaves out whose
\* error nobody asks for.  (RemoteWrite.Write)
NothingSkipped ==
  \A x \in samples : x.time <= lastWrite => x \in accepted \cup refused \cup missed

\* Without those cases: "Writes all the metrics".  It fails, with one series and
\* nothing else that fails.  (RemoteWrite.Write, skipEmptyRanges)
EverythingSent ==
  \A x \in samples : x.time <= lastWrite => x \in accepted \cup refused

\* As long as no request fails and the process lives, no sample is sent twice,
\* however the ranges fall.  (RemoteWrite.Write: the range starts one
\* millisecond after the last position)
NoDuplicates == faults = 0 => ~resent

\* While a receiver is configured one routine runs, and says so, however an
\* update falls between the routine's last look at the configuration and its
\* end.  (RemoteWrite.Update, getConfig)
RunsWhileEnabled == (receiver # NoReceiver => isRunning) /\ (isRunning <=> pc # "off")
=============================================================================
