----------------------------- MODULE WriteRange -----------------------------
(***************************************************************************)
(* RemoteWrite.writeRange (internal/metrics/remote_write.go): the loop     *)
(* that cuts the series of a range into requests, as a part of the remote  *)
(* writer.  RemoteWrite takes the next samples of the range, whichever     *)
(* series they are of; here the loop goes through the series as the store  *)
(* returned them, and has its variables.  What it sends it does not read   *)
(* from unsent, which only says, for RemoteWrite, what it has not sent.    *)
(***************************************************************************)
EXTENDS RemoteWrite, Sequences

VARIABLES
  series,   \* the series of the range, each with its labels and its samples
  locals,   \* i, sampleIndex, numSamples and requestSeries of writeRange
  inRequest \* it is in writeRequest

loopVars == <<series, locals, inRequest>>

LoopStart == [i |-> 1, sampleIndex |-> 0, numSamples |-> 0, requestSeries |-> <<>>]

LoopInit == Init /\ series = <<>> /\ locals = LoopStart /\ inRequest = FALSE

-----------------------------------------------------------------------------
(* What the store returns *)

Ascending(S) ==
  CHOOSE q \in [1..Cardinality(S) -> S] : \A j, k \in DOMAIN q : j < k => q[j] < q[k]

\* The samples X as series with the labels R, in the order of both.
Listing(R, X) ==
  LET labels == Ascending(R)
      times(s) == Ascending({x.time : x \in {y \in X : y.series = s}})
  IN [k \in DOMAIN labels |-> [labels |-> labels[k], points |-> times(labels[k])]]

\* A series may be returned for a chunk that has no sample in the range.
Returned(X) == {Listing(R, X) : R \in {S \in SUBSET Series : \A x \in X : x.series \in S}}

\* The samples of some series, of a range or of a request.
SamplesOf(q) ==
  UNION {{[series |-> q[k].labels, time |-> q[k].points[p]] : p \in DOMAIN q[k].points} :
           k \in DOMAIN q}

-----------------------------------------------------------------------------
(* The loop, as functions of its variables v *)

\* Mutation: a series that goes on in a new request is not put into it.
OpenSeriesAtStart(v) ==
  IF v.sampleIndex = 0
    THEN Append(v.requestSeries, [labels |-> series[v.i].labels, points |-> <<>>])
    ELSE v.requestSeries

\* The series is new to the request when it is begun or the request was reset.
OpenSeries(v) ==
  IF v.sampleIndex = 0 \/ v.requestSeries = <<>>
    THEN Append(v.requestSeries, [labels |-> series[v.i].labels, points |-> <<>>])
    ELSE v.requestSeries

\* What fits of the current series, taken into the request.
TakeSamples(v) ==
  LET points == series[v.i].points
      use == MinOf({NumSamples - v.numSamples, Len(points) - v.sampleIndex})
      some == SubSeq(points, v.sampleIndex + 1, v.sampleIndex + use)
      open == OpenSeries(v)
  IN IF points = <<>> THEN v
     ELSE [v EXCEPT !.numSamples = @ + use, !.sampleIndex = @ + use,
                    !.requestSeries = [open EXCEPT ![Len(open)].points = @ \o some]]

\* Mutation: the next series is begun where the last one ended.
NextSeriesOnly(v) == IF v.sampleIndex = Len(series[v.i].points) THEN [v EXCEPT !.i = @ + 1] ELSE v

NextSeries(v) ==
  IF v.sampleIndex = Len(series[v.i].points)
    THEN [v EXCEPT !.i = @ + 1, !.sampleIndex = 0]
    ELSE v

\* The request is sent when it is full or no series is left.
SendWhenFull(v) == v.numSamples = NumSamples \/ v.i > Len(series)

-----------------------------------------------------------------------------
(* The loop in the remote writer *)

EndLoop == series' = <<>> /\ locals' = LoopStart /\ inRequest' = FALSE

\* writeRange is called when the store returned a series.
ReadSeries ==
  /\ ReadRange
  /\ \/ pc' = "sleep" /\ UNCHANGED loopVars
     \/ /\ pc' # "sleep"
        /\ series' \in Returned(unsent')
        /\ hadEmpty' = (series' = <<>>)
        /\ UNCHANGED <<locals, inRequest>>

\* A round of the loop, as far as writeRequest.
Iterate ==
  /\ pc = "send" /\ ~inRequest
  /\ locals' = NextSeries(TakeSamples(locals))
  /\ inRequest' = SendWhenFull(locals')
  /\ UNCHANGED <<vars, series>>

\* writeRequest comes back, and the loop goes on with an empty request, or ends.
WriteRequest ==
  LET request == SamplesOf(locals.requestSeries)
      last == locals.i > Len(series)
  IN /\ inRequest
     /\ Accepted(request, last) \/ Refused(request, last)
     /\ IF last THEN EndLoop
        ELSE /\ locals' = [locals EXCEPT !.numSamples = 0, !.requestSeries = <<>>]
             /\ inRequest' = FALSE /\ UNCHANGED series

\* A try fails; after the last one writeRange returns.
FailRequest ==
  /\ inRequest
  /\ Failed(SamplesOf(locals.requestSeries))
  /\ IF pc' = "send" THEN UNCHANGED loopVars ELSE EndLoop

LoopNext ==
  \/ (Outside \/ Routine) /\ UNCHANGED loopVars
  \/ ReadSeries \/ Iterate \/ WriteRequest \/ FailRequest
  \/ Restart /\ EndLoop

LoopSpec == LoopInit /\ [][LoopNext]_<<vars, loopVars>>

-----------------------------------------------------------------------------
(* Properties *)

\* Whatever range is sent, and whichever series of it are empty, just fill a
\* request or span several, the request under way has the samples that come next
\* in the range, each once, in the order of the store and under the labels of
\* its own series, which is there once.  (RemoteWrite.writeRange)
RequestsAsCut ==
  inRequest =>
    LET q == locals.requestSeries IN
      /\ SamplesOf(q) = Request
      /\ \A j, k \in DOMAIN q : j < k => q[j].labels < q[k].labels
      /\ \A j \in DOMAIN q : \A a, b \in DOMAIN q[j].points :
           a < b => q[j].points[a] < q[j].points[b]

\* With its loop the remote writer does what RemoteWrite says: the loop ends when
\* all of the range was sent, and each of its requests is the next one.
\* (RemoteWrite.Write, writeRange)
ImplementsRemoteWrite == Spec
=============================================================================
