------------------------------ MODULE Metrics ------------------------------
(***************************************************************************)
(* roboflex::nodes::MetricsNode with its MetricsPublisherNode: what is     *)
(* measured of the messages that pass, how five MetricTrackers sum it up,  *)
(* and how the trackers are published and reset.                           *)
(*                                                                         *)
(* The recorder is the thread that calls receive: one at a time, for the   *)
(* one parent of a MetricsNode notifies it with its mutex held.  The       *)
(* trigger is the thread that sends messages to the publisher node.  The   *)
(* user is any thread that calls reset.  A step is what happens to one     *)
(* tracker.                                                                *)
(***************************************************************************)
EXTENDS Integers, SequencesExt

CONSTANTS
  Sources,        \* the nodes whose messages pass
  Samples,        \* the measurements that may be made, see Measured
  Huge,           \* numeric_limits<double>::max(): above every measurement
  Scale,          \* means and variances are integers that count 1/Scale
  Passive,        \* is there a passive_frequency_hz?
  NoNode,         \* no source
  MaxResets,      \* bound: calls of reset by the user
  MaxIndex,       \* bound: message counters
  MaxMessages     \* bound: messages received

\* The five trackers, in the order in which record_metrics and reset go.
Time == 1
Bytes == 2
Dt == 3
Latency == 4
Missed == 5
Trackers == Time .. Missed

\* A measurement in units of half a second, half a message and so on, so that
\* the smallest positive double lies between 0 and the smallest measurement.
Measured == [Trackers \ {Missed} -> Int]
Tiny == 1

ASSUME MetricsAssumption ==
  /\ Samples \subseteq Measured
  /\ Huge \in Nat /\ Scale \in Nat \ {0}
  /\ Passive \in BOOLEAN
  /\ MaxIndex \in Nat /\ MaxMessages \in Nat /\ MaxResets \in Nat
  /\ \A v \in Samples : \A t \in Trackers \ {Missed} : v[t] <= Huge
  /\ 2 * MaxIndex <= Huge

\* The doubles of the code are modelled without rounding: every division that
\* RecordValue makes for up to MaxMessages values is exact.
ASSUME ScaleAssumption == \A n \in 1 .. MaxMessages - 1 : Scale % (n * (n + 1)) = 0

Threads == {"recorder", "trigger", "user"}
Free == "free"

VARIABLES
  tracked,       \* the trackers
  mtx,           \* who holds MetricsPublisherNode::mtx
  doing,         \* what each thread is doing
  step,          \* which tracker it is at
  received,      \* has a message been received: last_receive_time # -1
  last_index,    \* node_uuids_to_last_received_message_indexes
  sample,        \* the local variables of receive
  waited,        \* last_passive_publish_time # 0
  message,       \* the last MetricsMessage signalled
  log,           \* history: the values recorded in each tracker since its reset
  recorded,      \* history: how many values each tracker was given
  reported,      \* history: how many values of each were published
  dropped,       \* history: how many the user's resets threw away
  resets,        \* history: the calls of reset by the user
  seen,          \* history: the indexes received of each source
  skipped,       \* history: those, but 0, that had not come when a later one did
  disordered,    \* history: the sources of which one came twice or behind a later one
  missed         \* history: the missed messages recorded for each source

publisher == <<tracked, mtx, message, log, recorded, reported>>
receiver == <<received, last_index, sample, waited, seen, skipped, disordered, missed>>
user == <<dropped, resets>>
vars == <<publisher, receiver, user, doing, step>>

-----------------------------------------------------------------------------
(* MetricTracker.                                                          *)

Reset == [count |-> 0, total |-> 0, mean |-> 0, m2 |-> 0,
          max |-> Tiny, min |-> Huge]

Least(x, y) == IF x < y THEN x ELSE y
Greatest(x, y) == IF x > y THEN x ELSE y

\* Faulty RecordValue: both differences are taken from the old mean.
OldMeanTwice(t, value) ==
  LET delta == Scale * value - t.mean
  IN  [count |-> t.count + 1,
       total |-> t.total + value,
       mean  |-> t.mean + delta \div (t.count + 1),
       m2    |-> t.m2 + (delta * delta) \div Scale,
       max   |-> Greatest(t.max, value),
       min   |-> Least(t.min, value)]

\* Welford's recurrence, see ScaleAssumption.
RecordValue(t, value) ==
  LET delta == Scale * value - t.mean
      mean  == t.mean + delta \div (t.count + 1)
  IN  [count |-> t.count + 1,
       total |-> t.total + value,
       mean  |-> mean,
       m2    |-> t.m2 + (delta * (Scale * value - mean)) \div Scale,
       max   |-> Greatest(t.max, value),
       min   |-> Least(t.min, value)]

-----------------------------------------------------------------------------
Init ==
  /\ tracked = [t \in Trackers |-> Reset]
  /\ mtx = Free
  /\ doing = [th \in Threads |-> "idle"]
  /\ step = [th \in Threads |-> Time]
  /\ received = FALSE
  /\ last_index = [s \in Sources |-> 0]     \* the default of a source not found
  /\ sample = [value |-> [t \in Trackers |-> 0], first |-> TRUE, source |-> NoNode]
  /\ waited = FALSE
  /\ message = tracked
  /\ log = [t \in Trackers |-> <<>>]
  /\ recorded = [t \in Trackers |-> 0]
  /\ reported = recorded
  /\ dropped = recorded
  /\ resets = 0
  /\ seen = [s \in Sources |-> {}]
  /\ skipped = seen
  /\ disordered = {}
  /\ missed = [s \in Sources |-> 0]

Goes(th, from, to) == doing[th] = from /\ doing' = [doing EXCEPT ![th] = to]
AtTracker(th, t) == step' = [step EXCEPT ![th] = t]

\* Faulty Acquire: the mutex is not waited for.
Barge(th) == doing["user"] = "idle" /\ mtx' = th

\* reset takes no mutex, and the program calls it only while no message comes
\* and nobody publishes: anything else is a data race.
Acquire(th) == doing["user"] = "idle" /\ mtx = Free /\ mtx' = th

-----------------------------------------------------------------------------
(* MetricsNode::receive.                                                   *)

\* Faulty MissedBetween: nothing is missed before the first message.
FromTheFirst(last, index) == IF last = 0 THEN 0 ELSE Greatest(0, index - last - 1)

\* Faulty MissedBetween: the message itself is counted too.
WithLast(last, index) == Greatest(0, index - last)

MissedBetween(last, index) == Greatest(0, index - last - 1)

\* The message is passed on and measured.  The counters of one source come in any
\* order, and twice: threads that signal one node may get the same counter and
\* overtake each other, and a message may come by several paths.
Receive(s, index, values) ==
  /\ Goes("recorder", "idle", "measured")
  /\ recorded[Time] < MaxMessages
  /\ received' = TRUE
  /\ sample' = [value  |-> [t \in Trackers |->
                              IF t = Missed THEN 2 * MissedBetween(last_index[s], index)
                                            ELSE values[t]],
                first  |-> ~received,
                source |-> s]
  /\ last_index' = [last_index EXCEPT ![s] = index]
  /\ seen' = [seen EXCEPT ![s] = @ \cup {index}]
  /\ skipped' = [skipped EXCEPT ![s] = @ \cup ((1 .. index - 1) \ seen[s])]
  /\ disordered' = IF \A i \in seen[s] : i < index THEN disordered
                                                    ELSE disordered \cup {s}
  /\ UNCHANGED <<publisher, step, waited, missed, user>>

\* record_metrics.
RecordBegins ==
  /\ Goes("recorder", "measured", "record")
  /\ Acquire("recorder")
  /\ AtTracker("recorder", Time)
  /\ UNCHANGED <<tracked, message, log, recorded, reported, receiver, user>>

RecordOne ==
  LET t == step["recorder"]
      v == sample.value[t]
      used == t # Dt \/ ~sample.first      \* the first message has no interval
  IN  /\ doing["recorder"] = "record"
      /\ t \in Trackers
      /\ tracked' = IF used THEN [tracked EXCEPT ![t] = RecordValue(@, v)] ELSE tracked
      /\ log' = IF used THEN [log EXCEPT ![t] = Append(@, v)] ELSE log
      /\ recorded' = IF used THEN [recorded EXCEPT ![t] = @ + 1] ELSE recorded
      /\ missed' = IF t = Missed THEN [missed EXCEPT ![sample.source] = @ + v \div 2]
                                 ELSE missed
      /\ AtTracker("recorder", t + 1)
      /\ UNCHANGED <<mtx, message, reported, received, last_index, sample, waited,
                     seen, skipped, disordered, user, doing>>

\* The mutex is released.  The first message only starts the passive period;
\* of a later one the period may have passed (due).
RecordEnds(due) ==
  /\ step["recorder"] > Missed
  /\ due => Passive /\ waited
  /\ Goes("recorder", "record", IF due THEN "due" ELSE "idle")
  /\ waited' = (waited \/ Passive)
  /\ mtx' = Free
  /\ UNCHANGED <<tracked, message, log, recorded, reported, received, last_index,
                 sample, seen, skipped, disordered, missed, step, user>>

-----------------------------------------------------------------------------
(* MetricsPublisherNode.                                                   *)

\* Faulty Copied: the trackers are reset before they are copied.
CopiedLate == [t \in Trackers |-> Reset]

\* What goes into the MetricsMessage.
Copied == tracked

\* publish_and_reset: by the trigger, or by the recorder when it is due.
PublishBegins(th) ==
  /\ \/ th = "trigger" /\ Goes(th, "idle", "publish")
     \/ th = "recorder" /\ Goes(th, "due", "publish")
  /\ Acquire(th)
  /\ message' = Copied
  /\ reported' = [t \in Trackers |-> reported[t] + Copied[t].count]
  /\ AtTracker(th, Time)
  /\ UNCHANGED <<tracked, log, recorded, receiver, user>>

\* reset called by the user: see Acquire.
ResetBegins ==
  /\ resets < MaxResets
  /\ mtx = Free
  /\ Goes("user", "idle", "reset")
  /\ AtTracker("user", Time)
  /\ resets' = resets + 1
  /\ UNCHANGED <<publisher, receiver, dropped>>

\* Faulty ResetTracker: the values stay.
NotReset(t) == tracked[t]

ResetTracker(t) == Reset

ResetOne(th) ==
  LET t == step[th]
  IN  /\ doing[th] \in {"publish", "reset"}
      /\ t \in Trackers
      /\ tracked' = [tracked EXCEPT ![t] = ResetTracker(t)]
      /\ log' = [log EXCEPT ![t] = <<>>]
      /\ dropped' = IF th = "user" THEN [dropped EXCEPT ![t] = @ + tracked[t].count]
                                   ELSE dropped
      /\ AtTracker(th, t + 1)
      /\ UNCHANGED <<mtx, message, recorded, reported, receiver, resets, doing>>

PublishEnds(th) ==
  /\ step[th] > Missed
  /\ Goes(th, "publish", "idle")
  /\ mtx' = Free
  /\ UNCHANGED <<tracked, message, log, recorded, reported, receiver, user, step>>

ResetEnds ==
  /\ step["user"] > Missed
  /\ Goes("user", "reset", "idle")
  /\ UNCHANGED <<publisher, receiver, user, step>>

-----------------------------------------------------------------------------
Publishing ==
  \/ \E th \in {"trigger", "recorder"} :
       PublishBegins(th) \/ ResetOne(th) \/ PublishEnds(th)

Recording == RecordBegins \/ RecordOne \/ \E due \in BOOLEAN : RecordEnds(due)

Resetting == ResetBegins \/ ResetOne("user") \/ ResetEnds

Next ==
  \/ \E s \in Sources, index \in 0 .. MaxIndex, values \in Samples :
       Receive(s, index, values)
  \/ Recording
  \/ Publishing
  \/ Resetting

Spec == Init /\ [][Next]_vars

\* The threads keep running, and a mutex that is free again and again is had in
\* the end.
FairSpec ==
  /\ Spec
  /\ SF_vars(RecordBegins)
  /\ WF_vars(RecordOne)
  /\ WF_vars(RecordEnds(FALSE))
  /\ WF_vars(ResetOne("user") \/ ResetEnds)
  /\ \A th \in {"trigger", "recorder"} :
       /\ SF_vars(PublishBegins(th))
       /\ WF_vars(ResetOne(th))
       /\ WF_vars(PublishEnds(th))

-----------------------------------------------------------------------------
(* Properties.                                                             *)

Total(values) == FoldLeft(LAMBDA x, y : x + y, 0, values)

Squares(values) == [i \in DOMAIN values |-> values[i] * values[i]]

\* x is one of the values, and no other one is better
IsBest(x, values, Better(_, _)) ==
  /\ \E i \in DOMAIN values : values[i] = x
  /\ \A i \in DOMAIN values : ~Better(values[i], x)

Smaller(x, y) == x < y
Greater(x, y) == x > y

\* missed says of every message that was received what was missed before it
NothingToRecord == doing["recorder"] \notin {"measured", "record"}

Tracker == [count : Nat, total : Int, mean : Int, m2 : Int, max : Int, min : Int]

TypeOK ==
  /\ tracked \in [Trackers -> Tracker]
  /\ tracked[Missed].total >= 0
  /\ mtx \in {Free, "recorder", "trigger"}
  /\ doing \in [Threads -> {"idle", "measured", "record", "due", "publish", "reset"}]
  /\ step \in [Threads -> Time .. Missed + 1]
  /\ received \in BOOLEAN /\ waited \in BOOLEAN
  /\ last_index \in [Sources -> Nat] /\ disordered \in SUBSET Sources
  /\ sample \in [value : [Trackers -> Int], first : BOOLEAN, source : Sources \cup {NoNode}]
  /\ message \in [Trackers -> Tracker]
  /\ recorded \in [Trackers -> Nat] /\ reported \in [Trackers -> Nat]
  /\ dropped \in [Trackers -> Nat] /\ resets \in 0 .. MaxResets

\* A tracker holds what its comment says of the values recorded since its last
\* reset: their number, sum, mean, minimum, and the sum of squared differences from
\* the mean that gives the variance; and their maximum, where that is positive: see
\* MaxIsGreatest for the others (record_value).
TracksSamples ==
  \A t \in Trackers :
    LET n == Len(log[t]) IN
    /\ tracked[t].count = n
    /\ tracked[t].total = Total(log[t])
    /\ n * tracked[t].mean = Scale * Total(log[t])
    /\ n * tracked[t].m2 = Scale * (n * Total(Squares(log[t])) - Total(log[t]) * Total(log[t]))
    /\ n > 0 => IsBest(tracked[t].min, log[t], Smaller)
    /\ (\E i \in 1 .. n : log[t][i] > 0) => IsBest(tracked[t].max, log[t], Greater)

\* "this class tracks the mean, min, max" of the values, whatever they are.  The
\* code breaks it: max_value starts at the least positive double and stays there
\* if no value is positive (MetricTracker and reset).
MaxIsGreatest ==
  \A t \in Trackers : log[t] # <<>> => IsBest(tracked[t].max, log[t], Greater)

\* The values of a message are recorded in all trackers or in none, as seen in
\* each MetricsMessage: only the first message has no interval (record_metrics,
\* publish_and_reset).
AllAlike ==
  /\ \A t \in Trackers \ {Dt} : message[t].count = message[Time].count
  /\ message[Time].count - message[Dt].count \in {0, 1}

\* No value is lost or published twice while one thread publishes and another
\* records: what was recorded was published, or thrown away by the user, or is
\* still in the tracker (publish_and_reset).
NothingLost ==
  \A t \in Trackers :
    recorded[t] = reported[t] + dropped[t]
      + IF \E th \in Threads : doing[th] = "publish" /\ step[th] <= t
        THEN 0 ELSE tracked[t].count

\* Every value recorded is published in the end, unless the user throws it away
\* (publish_and_reset).
AllPublished ==
  \A k \in 1 .. MaxMessages :
    (recorded[Time] = k) ~> (reported[Time] + dropped[Time] >= k)

\* No gap is overlooked, in whatever order the messages of a source come and
\* however often: every one that had not come when a later one did is reported as
\* missed, but message 0 (receive).
NoGapOverlooked ==
  \A s \in Sources : NothingToRecord => missed[s] >= Cardinality(skipped[s])

\* As long as the messages of a source come in the order of their counters, as
\* those of one thread by one path do, no gap is counted twice, however the
\* sources take turns: what is reported as missed is just what did not come, up
\* to the last message that came (receive).
MissedAreSkipped ==
  \A s \in Sources \ disordered :
    NothingToRecord => missed[s] = Cardinality((1 .. last_index[s]) \ seen[s])

\* "the number of messages we skipped from that source": each one is reported once
\* at most, and none that came before.  The code breaks it: a message that comes
\* behind a later one moves last_index back, so that what came, or was reported
\* already, is missed again (receive).
OnlySkipped ==
  \A s \in Sources : NothingToRecord => missed[s] <= Cardinality(skipped[s])

=============================================================================
