--------------------------- MODULE MetricsProofs ---------------------------
(***************************************************************************)
(* Proofs about Metrics: for any sources, measurements and number of       *)
(* messages, every value recorded is published once, the trackers of each  *)
(* MetricsMessage count the same messages, no gap is overlooked, gaps are  *)
(* counted once while messages come in order, and a tracker sums up the    *)
(* values recorded since its last reset.                                   *)
(***************************************************************************)
EXTENDS Metrics, FiniteSetTheorems, SequenceTheorems, WellFoundedInduction, TLAPS

\* No measurement lowers the number of missed messages, or is above every double.
SampleInRange ==
  /\ sample.value[Missed] >= 0
  /\ \A t \in Trackers : sample.value[t] <= Huge

TypeInv == TypeOK /\ SampleInRange

\* The mutex m is held while a thread records or publishes, and the user resets
\* only while it is free.
Held(d, m) ==
  /\ d["recorder"] \in {"idle", "measured", "record", "due", "publish"}
  /\ d["trigger"] \in {"idle", "publish"}
  /\ d["user"] \in {"idle", "reset"}
  /\ m = "recorder" <=> d["recorder"] \in {"record", "publish"}
  /\ m = "trigger" <=> d["trigger"] = "publish"
  /\ d["user"] = "reset" => m = Free

\* The operation under way has still to come to tracker t.
AheadOf(d, s, t, activity) == \E th \in Threads : d[th] = activity /\ s[th] <= t

\* What c, the count of t, is when the operation under way is over.
LevelOf(d, s, t, c, first) ==
  IF AheadOf(d, s, t, "publish") \/ AheadOf(d, s, t, "reset") THEN 0
  ELSE IF AheadOf(d, s, t, "record") /\ (t # Dt \/ ~first) THEN c + 1
  ELSE c

MutexHeld == Held(doing, mtx)

Level(t) == LevelOf(doing, step, t, tracked[t].count, sample.first)

\* All trackers come to the same count, but the first message has no interval.
LevelsAgree ==
  /\ \A t \in Trackers \ {Dt} : Level(t) = Level(Time)
  /\ Level(Time) - Level(Dt) \in {0, 1}

\* Nothing is counted before the first message is recorded.
FirstIsFirst ==
  (~received \/ (doing["recorder"] = "measured" /\ sample.first))
    => \A t \in Trackers : Level(t) = 0

ReceivedBefore == doing["recorder"] # "idle" => received

Inv == /\ TypeInv
       /\ MutexHeld
       /\ NothingLost
       /\ AllAlike
       /\ LevelsAgree
       /\ FirstIsFirst
       /\ ReceivedBefore

-----------------------------------------------------------------------------
(* Types.                                                                  *)

\* A tracker stays a tracker.
LEMMA RecordType ==
  ASSUME NEW t \in Tracker, NEW v \in Int
  PROVE  /\ RecordValue(t, v) \in Tracker
         /\ RecordValue(t, v).count = t.count + 1
         /\ RecordValue(t, v).total = t.total + v
<1>. DEFINE delta == Scale * v - t.mean
            mean == t.mean + delta \div (t.count + 1)
<1>1. Scale \in Nat \ {0} /\ t.count \in Nat /\ t.mean \in Int /\ t.m2 \in Int
  BY MetricsAssumption DEF Tracker
<1>2. Scale * v \in Int
  BY <1>1
<1>3. delta \in Int
  BY <1>1, <1>2
<1>4. delta \div (t.count + 1) \in Int
  BY <1>1, <1>3
<1>5. mean \in Int
  BY <1>1, <1>4
<1>6. delta * (Scale * v - mean) \in Int
  BY <1>2, <1>3, <1>5
<1>7. (delta * (Scale * v - mean)) \div Scale \in Int
  BY <1>1, <1>6
<1>8. t.m2 + (delta * (Scale * v - mean)) \div Scale \in Int
  BY <1>1, <1>7
<1>9. Greatest(t.max, v) \in Int /\ Least(t.min, v) \in Int
  BY DEF Greatest, Least, Tracker
<1>. HIDE DEF delta, mean
<1>10. RecordValue(t, v) =
         [count |-> t.count + 1, total |-> t.total + v, mean |-> mean,
          m2 |-> t.m2 + (delta * (Scale * v - mean)) \div Scale,
          max |-> Greatest(t.max, v), min |-> Least(t.min, v)]
  BY DEF RecordValue, delta, mean
<1>. QED
  BY <1>5, <1>8, <1>9, <1>10 DEF Tracker

LEMMA ResetType == Reset \in Tracker /\ Reset.count = 0 /\ Reset.total = 0
  BY MetricsAssumption DEF Reset, Tracker, Tiny

LEMMA InitTypes == Init => TypeInv
<1>. SUFFICES ASSUME Init PROVE TypeInv
  OBVIOUS
<1>. USE MetricsAssumption DEF Init
<1>1. received \in BOOLEAN /\ waited \in BOOLEAN
  BY Zenon
<1>2. tracked \in [Trackers -> Tracker] /\ message \in [Trackers -> Tracker]
  BY ResetType
<1>3. tracked[Missed].total >= 0 /\ SampleInRange
  BY ResetType DEF SampleInRange, Trackers, Time, Missed
<1>4. sample \in [value : [Trackers -> Int], first : BOOLEAN, source : Sources \cup {NoNode}]
  <2>. DEFINE none == [t \in Trackers |-> 0]
  <2>1. TRUE \in BOOLEAN
    BY Zenon
  <2>2. none \in [Trackers -> Int]
    OBVIOUS
  <2>3. sample = [value |-> none, first |-> TRUE, source |-> NoNode]
    OBVIOUS
  <2>. HIDE DEF none, Init
  <2>. QED
    BY <2>1, <2>2, <2>3
<1>5. step \in [Threads -> Time .. Missed + 1]
  BY DEF Time, Missed
<1>6. doing \in [Threads -> {"idle", "measured", "record", "due", "publish", "reset"}]
  OBVIOUS
<1>7. /\ last_index \in [Sources -> Nat]
      /\ recorded \in [Trackers -> Nat] /\ reported \in [Trackers -> Nat]
      /\ dropped \in [Trackers -> Nat] /\ resets \in 0 .. MaxResets
      /\ disordered \in SUBSET Sources
  OBVIOUS
<1>. QED
  BY <1>1, <1>2, <1>3, <1>4, <1>5, <1>6, <1>7 DEF TypeInv, TypeOK

\* A thread goes on to another activity and to another tracker.
LEMMA Progress ==
  ASSUME TypeOK, NEW th \in Threads,
         NEW to \in {"idle", "measured", "record", "due", "publish", "reset"},
         NEW t \in Time .. Missed + 1
  PROVE  /\ [doing EXCEPT ![th] = to] \in
              [Threads -> {"idle", "measured", "record", "due", "publish", "reset"}]
         /\ [step EXCEPT ![th] = t] \in [Threads -> Time .. Missed + 1]
  BY DEF TypeOK

LEMMA TrackerSteps ==
  /\ Time \in Trackers /\ Missed \in Trackers /\ Dt \in Trackers
  /\ Trackers \subseteq Int
  /\ Time \in Time .. Missed + 1
  /\ \A t \in Trackers : t + 1 \in Time .. Missed + 1
  BY DEF Trackers, Time, Missed, Dt

LEMMA ReceiveTypes ==
  ASSUME TypeInv, NEW s \in Sources, NEW index \in 0 .. MaxIndex, NEW values \in Samples,
         Receive(s, index, values)
  PROVE  TypeInv'
<1>. USE DEF TypeInv, TypeOK
<1>. DEFINE gap == 2 * MissedBetween(last_index[s], index)
            measured == [t \in Trackers |-> IF t = Missed THEN gap ELSE values[t]]
<1>1. index \in Nat /\ last_index[s] \in Nat /\ 2 * index <= Huge /\ Huge \in Nat
  BY MetricsAssumption
<1>2. gap \in Int /\ gap >= 0 /\ gap <= Huge
  BY <1>1 DEF MissedBetween, Greatest
<1>3. /\ values \in [Trackers \ {Missed} -> Int]
      /\ \A t \in Trackers \ {Missed} : values[t] <= Huge
  BY MetricsAssumption DEF Measured
<1>. HIDE DEF gap
<1>4. measured \in [Trackers -> Int] /\ measured[Missed] = gap
  BY <1>2, <1>3 DEF Trackers, Time, Missed
<1>. HIDE DEF measured
<1>5. sample' = [value |-> measured, first |-> ~received, source |-> s]
  BY DEF Receive, measured, gap
<1>6. (~received) \in BOOLEAN
  BY Zenon
<1>7. sample' \in [value : [Trackers -> Int], first : BOOLEAN, source : Sources \cup {NoNode}]
  BY <1>4, <1>5, <1>6
<1>8. SampleInRange'
  <2>1. \A t \in Trackers : measured[t] <= Huge
    BY <1>2, <1>3 DEF measured
  <2>. QED
    BY <1>2, <1>4, <1>5, <2>1 DEF SampleInRange
<1>9. received' \in BOOLEAN
  BY Zenon DEF Receive
<1>10. last_index' \in [Sources -> Nat]
  BY <1>1 DEF Receive
<1>11. doing' \in [Threads -> {"idle", "measured", "record", "due", "publish", "reset"}]
  BY Progress DEF Receive, Goes, Threads
<1>12. disordered' \in SUBSET Sources
  BY DEF Receive
<1>. QED
  BY <1>7, <1>8, <1>9, <1>10, <1>11, <1>12 DEF Receive, publisher, user

LEMMA RecordOneTypes ==
  ASSUME TypeInv, RecordOne
  PROVE  TypeInv'
<1>. USE DEF TypeInv, TypeOK
<1>. DEFINE t == step["recorder"]
            v == sample.value[t]
<1>1. t \in Trackers /\ v \in Int /\ tracked[t] \in Tracker
  BY DEF RecordOne
<1>. HIDE DEF t, v
<1>2. tracked' \in [Trackers -> Tracker]
  BY <1>1, RecordType DEF RecordOne, t, v
<1>3. tracked'[Missed].total >= 0
  <2>1. Missed \in Trackers
    BY DEF Trackers, Time, Missed
  <2>2. CASE tracked'[Missed] = tracked[Missed]
    BY <2>2
  <2>3. CASE t = Missed /\ tracked' = [tracked EXCEPT ![t] = RecordValue(@, v)]
    <3>1. tracked'[Missed].total = tracked[Missed].total + v
      BY <1>1, <2>1, <2>3, RecordType
    <3>2. v >= 0
      BY <2>3 DEF SampleInRange, v
    <3>3. tracked[Missed].total \in Int
      BY <2>1 DEF Tracker
    <3>. QED
      BY <1>1, <3>1, <3>2, <3>3
  <2>. QED
    BY <2>1, <2>2, <2>3 DEF RecordOne, t, v
<1>4. recorded' \in [Trackers -> Nat]
  <2>1. recorded' \in {recorded, [recorded EXCEPT ![t] = @ + 1]}
    BY DEF RecordOne, t
  <2>. QED
    BY <1>1, <2>1
<1>5. step' \in [Threads -> Time .. Missed + 1]
  BY <1>1, TrackerSteps, Progress DEF RecordOne, AtTracker, t, Threads
<1>. QED
  BY <1>2, <1>3, <1>4, <1>5 DEF RecordOne, SampleInRange, user

LEMMA ResetOneTypes ==
  ASSUME TypeInv, NEW th \in Threads, ResetOne(th)
  PROVE  TypeInv'
<1>. USE DEF TypeInv, TypeOK
<1>. DEFINE t == step[th]
<1>1. t \in Trackers /\ tracked[t].count \in Nat
  BY DEF ResetOne, Tracker
<1>. HIDE DEF t
<1>2. tracked' \in [Trackers -> Tracker]
  BY <1>1, ResetType DEF ResetOne, ResetTracker, t
<1>3. tracked'[Missed].total >= 0
  <2>1. tracked' = [tracked EXCEPT ![t] = Reset]
    BY DEF ResetOne, ResetTracker, t
  <2>2. tracked'[Missed] \in {Reset, tracked[Missed]}
    BY <1>1, <2>1, TrackerSteps
  <2>. QED
    BY <2>2, ResetType
<1>4. dropped' \in [Trackers -> Nat]
  <2>1. dropped' \in {dropped, [dropped EXCEPT ![t] = @ + tracked[t].count]}
    BY DEF ResetOne, t
  <2>. QED
    BY <1>1, <2>1
<1>5. step' \in [Threads -> Time .. Missed + 1]
  BY <1>1, TrackerSteps, Progress DEF ResetOne, AtTracker, t
<1>. QED
  BY <1>2, <1>3, <1>4, <1>5 DEF ResetOne, SampleInRange, receiver

LEMMA PublishBeginsTypes ==
  ASSUME TypeInv, NEW th \in {"trigger", "recorder"}, PublishBegins(th)
  PROVE  TypeInv'
<1>. USE DEF TypeInv, TypeOK
<1>1. \A t \in Trackers : tracked[t].count \in Nat
  BY DEF Tracker
<1>2. reported' \in [Trackers -> Nat]
  BY <1>1 DEF PublishBegins, Copied
<1>3. step' \in [Threads -> Time .. Missed + 1]
  BY TrackerSteps, Progress DEF PublishBegins, AtTracker, Threads
<1>4. doing' \in [Threads -> {"idle", "measured", "record", "due", "publish", "reset"}]
  BY Progress DEF PublishBegins, Goes, Threads
<1>. QED
  BY <1>2, <1>3, <1>4 DEF PublishBegins, Copied, Acquire, SampleInRange, receiver, user

LEMMA OtherTypes ==
  ASSUME TypeInv,
         \/ RecordBegins \/ ResetBegins \/ ResetEnds
         \/ \E due \in BOOLEAN : RecordEnds(due)
         \/ \E th \in {"trigger", "recorder"} : PublishEnds(th)
  PROVE  TypeInv'
<1>. USE DEF TypeInv, TypeOK, SampleInRange, publisher, receiver, user
<1>1. CASE RecordBegins
  <2>1. step' \in [Threads -> Time .. Missed + 1]
    BY <1>1, TrackerSteps, Progress DEF RecordBegins, AtTracker, Threads
  <2>2. doing' \in [Threads -> {"idle", "measured", "record", "due", "publish", "reset"}]
    BY <1>1 DEF RecordBegins, Goes
  <2>. QED
    BY <1>1, <2>1, <2>2 DEF RecordBegins, Acquire
<1>2. CASE ResetBegins
  <2>1. step' \in [Threads -> Time .. Missed + 1]
    BY <1>2, TrackerSteps, Progress DEF ResetBegins, AtTracker, Threads
  <2>2. doing' \in [Threads -> {"idle", "measured", "record", "due", "publish", "reset"}]
    BY <1>2 DEF ResetBegins, Goes
  <2>3. resets' \in 0 .. MaxResets
    BY <1>2, MetricsAssumption DEF ResetBegins
  <2>. QED
    BY <1>2, <2>1, <2>2, <2>3 DEF ResetBegins
<1>3. CASE ResetEnds
  BY <1>3 DEF ResetEnds, Goes
<1>4. ASSUME NEW due \in BOOLEAN, RecordEnds(due) PROVE TypeInv'
  <2>1. waited' \in BOOLEAN
    BY <1>4, Zenon DEF RecordEnds
  <2>2. doing' \in [Threads -> {"idle", "measured", "record", "due", "publish", "reset"}]
    BY <1>4 DEF RecordEnds, Goes
  <2>. QED
    BY <1>4, <2>1, <2>2 DEF RecordEnds
<1>5. ASSUME NEW th \in {"trigger", "recorder"}, PublishEnds(th) PROVE TypeInv'
  BY <1>5 DEF PublishEnds, Goes
<1>. QED
  BY <1>1, <1>2, <1>3, <1>4, <1>5

LEMMA NextTypes ==
  ASSUME TypeInv, [Next]_vars
  PROVE  TypeInv'
<1>1. CASE UNCHANGED vars
  BY <1>1 DEF vars, publisher, receiver, user, TypeInv, TypeOK, SampleInRange
<1>2. CASE Next
  BY <1>2, ReceiveTypes, RecordOneTypes, ResetOneTypes, PublishBeginsTypes, OtherTypes
     DEF Next, Recording, Publishing, Resetting, Threads
<1>. QED
  BY <1>1, <1>2

\* Every variable keeps its type, and no missed messages are taken back.
THEOREM TypeCorrect == Spec => []TypeOK
<1>1. Init => TypeInv
  BY InitTypes
<1>2. TypeInv /\ [Next]_vars => TypeInv'
  BY NextTypes
<1>3. TypeInv => TypeOK
  BY DEF TypeInv
<1>. QED
  BY <1>1, <1>2, <1>3, PTL DEF Spec

-----------------------------------------------------------------------------
(* What is ahead and what the levels are, by who holds the mutex.          *)

LEMMA WhenQuiet ==
  ASSUME NEW d, NEW s, NEW m, Held(d, m), m = Free, d["user"] = "idle",
         NEW t, NEW c, NEW first
  PROVE  /\ ~AheadOf(d, s, t, "publish")
         /\ LevelOf(d, s, t, c, first) = c
  BY DEF Held, AheadOf, LevelOf, Threads, Free

LEMMA WhenRecording ==
  ASSUME NEW d, NEW s, NEW m, Held(d, m), d["recorder"] = "record",
         NEW t, NEW c, NEW first
  PROVE  /\ ~AheadOf(d, s, t, "publish")
         /\ LevelOf(d, s, t, c, first) =
              IF s["recorder"] <= t /\ (t # Dt \/ ~first) THEN c + 1 ELSE c
<1>1. /\ ~AheadOf(d, s, t, "publish") /\ ~AheadOf(d, s, t, "reset")
      /\ AheadOf(d, s, t, "record") <=> s["recorder"] <= t
  BY DEF Held, AheadOf, Threads, Free
<1>. QED
  BY <1>1 DEF LevelOf

LEMMA NextRecording ==
  ASSUME MutexHeld', doing'["recorder"] = "record", NEW t
  PROVE  /\ ~AheadOf(doing, step, t, "publish")'
         /\ Level(t)' = IF step'["recorder"] <= t /\ (t # Dt \/ ~sample'.first)
                        THEN tracked'[t].count + 1 ELSE tracked'[t].count
BY WhenRecording DEF Level, MutexHeld

LEMMA WhenPublishing ==
  ASSUME NEW d, NEW s, NEW m, Held(d, m),
         NEW th \in {"trigger", "recorder"}, d[th] = "publish",
         NEW t, NEW c, NEW first
  PROVE  /\ AheadOf(d, s, t, "publish") <=> s[th] <= t
         /\ LevelOf(d, s, t, c, first) = IF s[th] <= t THEN 0 ELSE c
<1>1. /\ AheadOf(d, s, t, "publish") <=> s[th] <= t
      /\ ~AheadOf(d, s, t, "reset") /\ ~AheadOf(d, s, t, "record")
  BY DEF Held, AheadOf, Threads, Free
<1>. QED
  BY <1>1 DEF LevelOf

LEMMA WhenResetting ==
  ASSUME NEW d, NEW s, NEW m, Held(d, m), d["user"] = "reset",
         NEW t, NEW c, NEW first
  PROVE  /\ ~AheadOf(d, s, t, "publish")
         /\ LevelOf(d, s, t, c, first) = IF s["user"] <= t THEN 0 ELSE c
<1>1. /\ AheadOf(d, s, t, "reset") <=> s["user"] <= t
      /\ ~AheadOf(d, s, t, "publish") /\ ~AheadOf(d, s, t, "record")
  BY DEF Held, AheadOf, Threads, Free
<1>. QED
  BY <1>1 DEF LevelOf

\* NothingLost in the terms of AheadOf.
LEMMA LostLemma ==
  NothingLost <=>
    \A t \in Trackers :
      recorded[t] = reported[t] + dropped[t]
        + IF AheadOf(doing, step, t, "publish") THEN 0 ELSE tracked[t].count
  BY DEF NothingLost, AheadOf

LEMMA Counts ==
  ASSUME TypeOK
  PROVE  \A t \in Trackers : tracked[t].count \in Nat /\ recorded[t] \in Nat
                             /\ reported[t] \in Nat /\ dropped[t] \in Nat
  BY DEF TypeOK, Tracker

-----------------------------------------------------------------------------
(* Every step keeps the invariant.                                         *)

\* The levels stay, and who has not received anything has not.
LevelsStay ==
  /\ \A t \in Trackers : Level(t)' = Level(t)
  /\ ((~received \/ (doing["recorder"] = "measured" /\ sample.first)))'
       => (~received \/ (doing["recorder"] = "measured" /\ sample.first))

LEMMA LevelsStayAgreed ==
  ASSUME LevelsAgree, FirstIsFirst, LevelsStay
  PROVE  LevelsAgree' /\ FirstIsFirst'
  BY TrackerSteps DEF LevelsAgree, FirstIsFirst, LevelsStay

LEMMA InitInv == Init => Inv
<1>. SUFFICES ASSUME Init PROVE Inv
  OBVIOUS
<1>1. TypeInv
  BY InitTypes
<1>2. MutexHeld
  BY DEF Init, MutexHeld, Held, Threads, Free
<1>3. \A t \in Trackers : tracked[t].count = 0 /\ message[t].count = 0
  BY ResetType DEF Init
<1>4. \A t \in Trackers : Level(t) = 0 /\ ~AheadOf(doing, step, t, "publish")
  <2>1. mtx = Free /\ doing["user"] = "idle"
    BY DEF Init, Threads
  <2>2. Held(doing, mtx)
    BY <1>2 DEF MutexHeld
  <2>. HIDE DEF Init
  <2>. QED
    BY <1>3, <2>1, <2>2, WhenQuiet DEF Level
<1>5. NothingLost
  BY <1>3, <1>4, LostLemma DEF Init
<1>6. AllAlike
  BY <1>3, TrackerSteps DEF AllAlike
<1>7. LevelsAgree /\ FirstIsFirst
  BY <1>4, TrackerSteps DEF LevelsAgree, FirstIsFirst
<1>8. ReceivedBefore
  BY DEF ReceivedBefore, Init, Threads
<1>. QED
  BY <1>1, <1>2, <1>5, <1>6, <1>7, <1>8 DEF Inv

LEMMA ReceiveInv ==
  ASSUME Inv, NEW s \in Sources, NEW index \in 0 .. MaxIndex, NEW values \in Samples,
         Receive(s, index, values), TypeInv'
  PROVE  Inv'
<1>. USE DEF Inv
<1>1. /\ doing["recorder"] = "idle" /\ doing' = [doing EXCEPT !["recorder"] = "measured"]
      /\ UNCHANGED <<tracked, mtx, message, recorded, reported, dropped, step>>
      /\ received' = TRUE /\ sample'.first = ~received
  BY DEF Receive, Goes, publisher, user
<1>2. /\ doing'["recorder"] = "measured" /\ doing'["trigger"] = doing["trigger"]
      /\ doing'["user"] = doing["user"]
  BY <1>1 DEF TypeInv, TypeOK, Threads
<1>3. MutexHeld'
  BY <1>1, <1>2 DEF MutexHeld, Held
<1>4. \A t, activity : activity \in {"record", "publish", "reset"} =>
        AheadOf(doing, step, t, activity)' = AheadOf(doing, step, t, activity)
  BY <1>1, <1>2, Zenon DEF AheadOf, Threads
<1>5. \A t : ~AheadOf(doing, step, t, "record")
  BY <1>1 DEF AheadOf, Threads, MutexHeld, Held
<1>6. LevelsStay
  <2>1. \A t \in Trackers : Level(t)' = Level(t)
    BY <1>1, <1>4, <1>5 DEF Level, LevelOf
  <2>. QED
    BY <1>1, <2>1 DEF LevelsStay
<1>7. NothingLost'
  BY <1>1, <1>4, LostLemma DEF NothingLost, AheadOf
<1>8. AllAlike' /\ ReceivedBefore'
  BY <1>1 DEF AllAlike, ReceivedBefore
<1>. QED
  BY <1>3, <1>6, <1>7, <1>8, LevelsStayAgreed

LEMMA RecordBeginsInv ==
  ASSUME Inv, RecordBegins, TypeInv'
  PROVE  Inv'
<1>. USE DEF Inv
<1>1. /\ doing["recorder"] = "measured" /\ doing' = [doing EXCEPT !["recorder"] = "record"]
      /\ step' = [step EXCEPT !["recorder"] = Time]
      /\ mtx = Free /\ mtx' = "recorder" /\ doing["user"] = "idle"
      /\ UNCHANGED <<tracked, message, recorded, reported, dropped, received, sample>>
  BY DEF RecordBegins, Goes, Acquire, AtTracker, receiver, user
<1>2. /\ doing'["recorder"] = "record" /\ doing'["trigger"] = doing["trigger"]
      /\ doing'["user"] = doing["user"] /\ step'["recorder"] = Time
  BY <1>1 DEF TypeInv, TypeOK, Threads
<1>3. MutexHeld'
  BY <1>1, <1>2 DEF MutexHeld, Held, Free
<1>4. \A t \in Trackers : Time <= t
  BY DEF Trackers, Time, Missed
<1>5. \A t \in Trackers : /\ Level(t) = tracked[t].count
                          /\ ~AheadOf(doing, step, t, "publish")
  BY <1>1, WhenQuiet DEF Level, MutexHeld
<1>6. \A t \in Trackers :
        /\ ~AheadOf(doing, step, t, "publish")'
        /\ Level(t)' = IF t # Dt \/ ~sample.first THEN tracked[t].count + 1
                                                  ELSE tracked[t].count
  BY <1>1, <1>2, <1>3, <1>4, NextRecording
<1>7. NothingLost'
  BY <1>1, <1>5, <1>6, LostLemma DEF NothingLost, AheadOf
<1>8. LevelsAgree'
  <2>1. Time # Dt
    BY DEF Time, Dt
  <2>2. \A t \in Trackers : tracked[t].count \in Nat
    BY Counts DEF TypeInv
  <2>3. CASE sample.first
    <3>1. \A t \in Trackers : tracked[t].count = 0
      BY <1>1, <1>5, <2>3 DEF FirstIsFirst
    <3>. QED
      BY <1>6, <2>1, <2>3, <3>1, TrackerSteps DEF LevelsAgree
  <2>4. CASE ~sample.first
    <3>1. \A t \in Trackers : Level(t)' = Level(t) + 1
      BY <1>5, <1>6, <2>4
    <3>2. \A t \in Trackers : Level(t) \in Nat
      BY <1>5, <2>2
    <3>. QED
      BY <3>1, <3>2, TrackerSteps DEF LevelsAgree
  <2>. QED
    BY <2>3, <2>4
<1>9. FirstIsFirst' /\ AllAlike' /\ ReceivedBefore'
  BY <1>1, <1>2 DEF FirstIsFirst, AllAlike, ReceivedBefore
<1>. QED
  BY <1>3, <1>7, <1>8, <1>9

LEMMA RecordOneInv ==
  ASSUME Inv, RecordOne, TypeInv'
  PROVE  Inv'
<1>. USE DEF Inv
<1>. DEFINE u == step["recorder"]
            used == u # Dt \/ ~sample.first
<1>1. /\ doing["recorder"] = "record" /\ u \in Trackers
      /\ step' = [step EXCEPT !["recorder"] = u + 1]
      /\ UNCHANGED <<doing, mtx, message, reported, dropped, received, sample>>
      /\ recorded' = IF used THEN [recorded EXCEPT ![u] = @ + 1] ELSE recorded
      /\ tracked' = IF used THEN [tracked EXCEPT ![u] = RecordValue(@, sample.value[u])]
                            ELSE tracked
  BY DEF RecordOne, AtTracker, user
<1>2. /\ step'["recorder"] = u + 1
      /\ \A t \in Trackers : tracked[t] \in Tracker /\ tracked[t].count \in Nat
      /\ sample.value[u] \in Int
      /\ \A t \in Trackers : recorded[t] \in Nat
  BY <1>1 DEF TypeInv, TypeOK, Threads, Tracker
<1>. HIDE DEF u, used
<1>3. /\ \A t \in Trackers : t # u => tracked'[t] = tracked[t] /\ recorded'[t] = recorded[t]
      /\ tracked'[u].count = IF used THEN tracked[u].count + 1 ELSE tracked[u].count
      /\ recorded'[u] = IF used THEN recorded[u] + 1 ELSE recorded[u]
  BY <1>1, <1>2, RecordType DEF TypeInv, TypeOK
<1>4. MutexHeld'
  BY <1>1 DEF MutexHeld
<1>5. \A t \in Trackers :
        /\ ~AheadOf(doing, step, t, "publish") /\ ~AheadOf(doing, step, t, "publish")'
        /\ Level(t) = IF u <= t /\ (t # Dt \/ ~sample.first) THEN tracked[t].count + 1
                                                             ELSE tracked[t].count
        /\ Level(t)' = IF u + 1 <= t /\ (t # Dt \/ ~sample.first)
                       THEN tracked'[t].count + 1 ELSE tracked'[t].count
  <2>1. Held(doing, mtx) /\ Held(doing', mtx')
    BY <1>4 DEF MutexHeld
  <2>2. \A t \in Trackers :
          /\ ~AheadOf(doing, step, t, "publish")
          /\ Level(t) = IF step["recorder"] <= t /\ (t # Dt \/ ~sample.first)
                        THEN tracked[t].count + 1 ELSE tracked[t].count
    BY <1>1, <2>1, WhenRecording DEF Level
  <2>3. \A t \in Trackers :
          /\ ~AheadOf(doing, step, t, "publish")'
          /\ Level(t)' = IF step'["recorder"] <= t /\ (t # Dt \/ ~sample'.first)
                         THEN tracked'[t].count + 1 ELSE tracked'[t].count
    BY <1>1, <1>4, NextRecording
  <2>4. sample'.first = sample.first /\ step'["recorder"] = u + 1 /\ step["recorder"] = u
    BY <1>1, <1>2 DEF u
  <2>. QED
    BY <2>2, <2>3, <2>4
<1>6. NothingLost'
  <2>1. \A t \in Trackers : recorded[t] = reported[t] + dropped[t] + tracked[t].count
    BY <1>5, LostLemma
  <2>2. \A t \in Trackers : reported[t] \in Nat /\ dropped[t] \in Nat
    BY Counts DEF TypeInv
  <2>3. \A t \in Trackers : recorded'[t] = reported'[t] + dropped'[t] + tracked'[t].count
    BY <1>1, <1>2, <1>3, <2>1, <2>2
  <2>. QED
    BY <1>5, <2>3 DEF NothingLost, AheadOf
<1>7. LevelsStay
  <2>1. \A t \in Trackers : t \in Int
    BY DEF Trackers, Time, Missed
  <2>2. ASSUME NEW t \in Trackers PROVE Level(t)' = Level(t)
    <3>1. CASE t = u
      BY <1>1, <1>2, <1>3, <1>5, <2>1, <3>1 DEF used
    <3>2. CASE t # u
      <4>1. u <= t <=> u + 1 <= t
        BY <1>1, <2>1, <3>2
      <4>. QED
        BY <1>3, <1>5, <3>2, <4>1
    <3>. QED
      BY <3>1, <3>2
  <2>. QED
    BY <1>1, <2>2 DEF LevelsStay
<1>8. AllAlike' /\ ReceivedBefore'
  BY <1>1 DEF AllAlike, ReceivedBefore
<1>. QED
  BY <1>4, <1>6, <1>7, <1>8, LevelsStayAgreed

LEMMA PublishBeginsInv ==
  ASSUME Inv, NEW th \in {"trigger", "recorder"}, PublishBegins(th), TypeInv'
  PROVE  Inv'
<1>. USE DEF Inv
<1>1. /\ doing[th] \in {"idle", "due"} /\ doing' = [doing EXCEPT ![th] = "publish"]
      /\ th = "recorder" => doing[th] = "due"
      /\ step' = [step EXCEPT ![th] = Time]
      /\ mtx = Free /\ mtx' = th /\ doing["user"] = "idle"
      /\ message' = tracked
      /\ reported' = [t \in Trackers |-> reported[t] + tracked[t].count]
      /\ UNCHANGED <<tracked, recorded, dropped, received, sample>>
  BY DEF PublishBegins, Goes, Acquire, AtTracker, Copied, receiver, user
<1>2. /\ doing'[th] = "publish" /\ step'[th] = Time
      /\ \A other \in Threads \ {th} : doing'[other] = doing[other]
  BY <1>1 DEF TypeInv, TypeOK, Threads
<1>3. MutexHeld'
  BY <1>1, <1>2 DEF MutexHeld, Held, Free, Threads
<1>4. \A t \in Trackers : Time <= t
  BY DEF Trackers, Time, Missed
<1>5. \A t \in Trackers : /\ Level(t) = tracked[t].count
                          /\ ~AheadOf(doing, step, t, "publish")
  BY <1>1, WhenQuiet DEF Level, MutexHeld
<1>6. \A t \in Trackers : AheadOf(doing, step, t, "publish")' /\ Level(t)' = 0
  BY <1>2, <1>3, <1>4, WhenPublishing DEF Level, MutexHeld
<1>7. NothingLost'
  <2>1. \A t \in Trackers : recorded[t] = reported[t] + dropped[t] + tracked[t].count
    BY <1>5, LostLemma
  <2>2. \A t \in Trackers : recorded'[t] = reported'[t] + dropped'[t] + 0
    BY <1>1, <2>1, Counts DEF TypeInv
  <2>. QED
    BY <1>6, <2>2 DEF NothingLost, AheadOf
<1>8. AllAlike'
  BY <1>1, <1>5, TrackerSteps DEF AllAlike, LevelsAgree
<1>9. LevelsAgree' /\ FirstIsFirst'
  BY <1>6, TrackerSteps DEF LevelsAgree, FirstIsFirst
<1>10. ReceivedBefore'
  BY <1>1, <1>2 DEF ReceivedBefore, Threads
<1>. QED
  BY <1>3, <1>7, <1>8, <1>9, <1>10

LEMMA ResetOneInv ==
  ASSUME Inv, NEW th \in Threads, ResetOne(th), TypeInv'
  PROVE  Inv'
<1>. USE DEF Inv
<1>. DEFINE u == step[th]
<1>1. /\ doing[th] \in {"publish", "reset"} /\ u \in Trackers
      /\ step' = [step EXCEPT ![th] = u + 1]
      /\ tracked' = [tracked EXCEPT ![u] = Reset]
      /\ dropped' = IF th = "user" THEN [dropped EXCEPT ![u] = @ + tracked[u].count]
                                   ELSE dropped
      /\ UNCHANGED <<doing, mtx, message, recorded, reported, received, sample>>
  BY DEF ResetOne, ResetTracker, AtTracker, receiver
<1>2. /\ step'[th] = u + 1
      /\ \A t \in Trackers : t # u => tracked'[t] = tracked[t]
      /\ tracked'[u].count = 0
  BY <1>1, ResetType DEF TypeInv, TypeOK
<1>. HIDE DEF u
<1>3. MutexHeld'
  BY <1>1 DEF MutexHeld
<1>4. \A t \in Trackers : t \in Int
  BY DEF Trackers, Time, Missed
<1>5. \A t \in Trackers : (u + 1 <= t) <=> (u <= t /\ t # u)
  BY <1>1, <1>4
<1>6. ASSUME th = "user" PROVE LevelsStay /\ NothingLost'
  <2>1. doing["user"] = "reset" /\ doing'["user"] = "reset"
    BY <1>1, <1>6 DEF MutexHeld, Held
  <2>2. \A t \in Trackers :
          /\ ~AheadOf(doing, step, t, "publish") /\ ~AheadOf(doing, step, t, "publish")'
          /\ Level(t) = IF u <= t THEN 0 ELSE tracked[t].count
          /\ Level(t)' = IF u + 1 <= t THEN 0 ELSE tracked'[t].count
    BY <1>2, <1>3, <1>6, <2>1, WhenResetting DEF Level, MutexHeld, u
  <2>3. LevelsStay
    <3>1. \A t \in Trackers : Level(t)' = Level(t)
      BY <1>1, <1>2, <1>4, <1>5, <2>2
    <3>. QED
      BY <1>1, <3>1 DEF LevelsStay
  <2>4. NothingLost'
    <3>1. \A t \in Trackers : recorded[t] = reported[t] + dropped[t] + tracked[t].count
      BY <2>2, LostLemma
    <3>2. /\ dropped'[u] = dropped[u] + tracked[u].count
          /\ \A t \in Trackers : t # u => dropped'[t] = dropped[t]
      BY <1>1, <1>6 DEF TypeInv, TypeOK
    <3>3. \A t \in Trackers : recorded'[t] = reported'[t] + dropped'[t] + tracked'[t].count
      BY <1>1, <1>2, <3>1, <3>2, Counts DEF TypeInv
    <3>. QED
      BY <2>2, <3>3 DEF NothingLost, AheadOf
  <2>. QED
    BY <2>3, <2>4
<1>7. ASSUME th # "user" PROVE LevelsStay /\ NothingLost'
  <2>1. th \in {"trigger", "recorder"} /\ doing[th] = "publish" /\ doing'[th] = "publish"
    BY <1>1, <1>7 DEF MutexHeld, Held, Threads
  <2>2. \A t \in Trackers :
          /\ AheadOf(doing, step, t, "publish") <=> u <= t
          /\ AheadOf(doing, step, t, "publish")' <=> u + 1 <= t
          /\ Level(t) = IF u <= t THEN 0 ELSE tracked[t].count
          /\ Level(t)' = IF u + 1 <= t THEN 0 ELSE tracked'[t].count
    BY <1>2, <1>3, <2>1, WhenPublishing DEF Level, MutexHeld, u
  <2>3. LevelsStay
    <3>1. \A t \in Trackers : Level(t)' = Level(t)
      BY <1>1, <1>2, <1>4, <1>5, <2>2
    <3>. QED
      BY <1>1, <3>1 DEF LevelsStay
  <2>4. NothingLost'
    <3>1. \A t \in Trackers : recorded[t] = reported[t] + dropped[t]
                                + IF u <= t THEN 0 ELSE tracked[t].count
      BY <2>2, LostLemma
    <3>2. u <= u
      BY <1>1, <1>4
    <3>3. \A t \in Trackers : recorded'[t] = reported'[t] + dropped'[t]
                                + IF u + 1 <= t THEN 0 ELSE tracked'[t].count
      BY <1>1, <1>2, <1>5, <1>7, <3>1, <3>2
    <3>. QED
      BY <2>2, <3>3 DEF NothingLost, AheadOf
  <2>. QED
    BY <2>3, <2>4
<1>8. AllAlike' /\ ReceivedBefore'
  BY <1>1 DEF AllAlike, ReceivedBefore
<1>9. LevelsStay /\ NothingLost'
  BY <1>6, <1>7
<1>. QED
  BY <1>3, <1>8, <1>9, LevelsStayAgreed

\* A thread that is past the last tracker is ready.
LEMMA EndInv ==
  ASSUME Inv, TypeInv', MutexHeld', NEW th \in Threads, NEW to \in {"idle", "due"},
         step[th] > Missed, doing' = [doing EXCEPT ![th] = to],
         doing[th] \in {"record", "publish", "reset"},
         th = "recorder" \/ to = "idle",
         UNCHANGED <<tracked, message, recorded, reported, dropped, step, received, sample>>
  PROVE  Inv'
<1>. USE DEF Inv
<1>1. /\ doing'[th] = to
      /\ \A other \in Threads \ {th} : doing'[other] = doing[other]
  BY DEF TypeInv, TypeOK
<1>2. ASSUME NEW t \in Trackers, NEW activity \in {"record", "publish", "reset"}
      PROVE  AheadOf(doing, step, t, activity)' <=> AheadOf(doing, step, t, activity)
  <2>1. step[th] \in Int /\ t \in Int /\ ~(step[th] <= t)
    BY DEF TypeInv, TypeOK, Trackers, Time, Missed
  <2>2. doing'[th] # activity
    BY <1>1
  <2>. QED
    BY <1>1, <2>1, <2>2 DEF AheadOf
<1>3. \A t \in Trackers : Level(t)' = Level(t)
  BY <1>2 DEF Level, LevelOf
<1>4. ReceivedBefore'
  BY <1>1 DEF ReceivedBefore, Threads
<1>5. LevelsStay
  BY <1>1, <1>3, <1>4 DEF LevelsStay, ReceivedBefore, Threads
<1>6. NothingLost'
  BY <1>2 DEF NothingLost, AheadOf
<1>7. AllAlike'
  BY DEF AllAlike
<1>. QED
  BY <1>4, <1>5, <1>6, <1>7, LevelsStayAgreed

LEMMA EndsInv ==
  ASSUME Inv, TypeInv',
         \/ \E due \in BOOLEAN : RecordEnds(due)
         \/ \E th \in {"trigger", "recorder"} : PublishEnds(th)
         \/ ResetEnds
  PROVE  Inv'
<1>. USE DEF Threads
<1>1. ASSUME NEW due \in BOOLEAN, RecordEnds(due) PROVE Inv'
  <2>. DEFINE to == IF due THEN "due" ELSE "idle"
  <2>1. /\ step["recorder"] > Missed /\ to \in {"idle", "due"}
        /\ doing["recorder"] = "record" /\ doing' = [doing EXCEPT !["recorder"] = to]
        /\ mtx' = Free
        /\ UNCHANGED <<tracked, message, recorded, reported, dropped, step, received, sample>>
    BY <1>1 DEF RecordEnds, Goes, user
  <2>. HIDE DEF to
  <2>2. MutexHeld'
    BY <2>1 DEF Inv, TypeInv, TypeOK, MutexHeld, Held, Free
  <2>. QED
    BY <2>1, <2>2, EndInv
<1>2. ASSUME NEW th \in {"trigger", "recorder"}, PublishEnds(th) PROVE Inv'
  <2>1. /\ step[th] > Missed
        /\ doing[th] = "publish" /\ doing' = [doing EXCEPT ![th] = "idle"]
        /\ mtx' = Free
        /\ UNCHANGED <<tracked, message, recorded, reported, dropped, step, received, sample>>
    BY <1>2 DEF PublishEnds, Goes, receiver, user
  <2>2. MutexHeld'
    BY <2>1 DEF Inv, TypeInv, TypeOK, MutexHeld, Held, Free
  <2>. QED
    BY <2>1, <2>2, EndInv
<1>3. CASE ResetEnds
  <2>1. /\ step["user"] > Missed
        /\ doing["user"] = "reset" /\ doing' = [doing EXCEPT !["user"] = "idle"]
        /\ UNCHANGED <<tracked, mtx, message, recorded, reported, dropped, step, received, sample>>
    BY <1>3 DEF ResetEnds, Goes, receiver, user, publisher
  <2>2. MutexHeld'
    BY <2>1 DEF Inv, TypeInv, TypeOK, MutexHeld, Held, Free
  <2>. QED
    BY <2>1, <2>2, EndInv
<1>. QED
  BY <1>1, <1>2, <1>3

LEMMA ResetBeginsInv ==
  ASSUME Inv, ResetBegins, TypeInv'
  PROVE  Inv'
<1>. USE DEF Inv
<1>1. /\ mtx = Free /\ mtx' = Free
      /\ doing["user"] = "idle" /\ doing' = [doing EXCEPT !["user"] = "reset"]
      /\ step' = [step EXCEPT !["user"] = Time]
      /\ UNCHANGED <<tracked, message, recorded, reported, dropped, received, sample>>
  BY DEF ResetBegins, Goes, AtTracker, publisher, receiver
<1>2. /\ doing'["user"] = "reset" /\ step'["user"] = Time
      /\ doing'["recorder"] = doing["recorder"] /\ doing'["trigger"] = doing["trigger"]
  BY <1>1 DEF TypeInv, TypeOK, Threads
<1>3. MutexHeld'
  BY <1>1, <1>2 DEF MutexHeld, Held
<1>4. \A t \in Trackers : Time <= t
  BY DEF Trackers, Time, Missed
<1>5. \A t \in Trackers : ~AheadOf(doing, step, t, "publish")
  BY <1>1, WhenQuiet DEF MutexHeld
<1>6. \A t \in Trackers : ~AheadOf(doing, step, t, "publish")' /\ Level(t)' = 0
  BY <1>2, <1>3, <1>4, WhenResetting DEF Level, MutexHeld
<1>7. NothingLost'
  BY <1>1, <1>5, <1>6, LostLemma DEF NothingLost, AheadOf
<1>8. LevelsAgree' /\ FirstIsFirst'
  BY <1>6, TrackerSteps DEF LevelsAgree, FirstIsFirst
<1>9. AllAlike' /\ ReceivedBefore'
  BY <1>1, <1>2 DEF AllAlike, ReceivedBefore
<1>. QED
  BY <1>3, <1>7, <1>8, <1>9

LEMMA NextInv ==
  ASSUME Inv, [Next]_vars
  PROVE  Inv'
<1>1. TypeInv'
  BY NextTypes DEF Inv
<1>2. CASE UNCHANGED vars
  <2>1. UNCHANGED <<tracked, mtx, message, recorded, reported, dropped, doing, step,
                    received, sample>>
    BY <1>2 DEF vars, publisher, receiver, user
  <2>2. \A t : Level(t)' = Level(t)
    BY <2>1 DEF Level
  <2>. QED
    BY <1>1, <2>1, <2>2 DEF Inv, MutexHeld, NothingLost, AllAlike, LevelsAgree,
                            FirstIsFirst, ReceivedBefore
<1>3. CASE Next
  BY <1>1, <1>3, ReceiveInv, RecordBeginsInv, RecordOneInv, PublishBeginsInv, ResetOneInv,
     EndsInv, ResetBeginsInv
     DEF Next, Recording, Publishing, Resetting, Threads
<1>. QED
  BY <1>2, <1>3

THEOREM InvCorrect == Spec => []Inv
<1>1. Init => Inv
  BY InitInv
<1>2. Inv /\ [Next]_vars => Inv'
  BY NextInv
<1>. QED
  BY <1>1, <1>2, PTL DEF Spec

\* Every value recorded is published once, thrown away by the user or still in its
\* tracker, whatever the threads are doing.
THEOREM LosesNothing == Spec => []NothingLost
BY InvCorrect, PTL DEF Inv

\* The trackers in a MetricsMessage count the same messages.
THEOREM PublishesAlike == Spec => []AllAlike
BY InvCorrect, PTL DEF Inv

-----------------------------------------------------------------------------
(* Missed messages.                                                        *)

\* The missed messages that receive has found and not recorded yet.
Unrecorded(s) ==
  IF /\ sample.source = s
     /\ \/ doing["recorder"] = "measured"
        \/ doing["recorder"] = "record" /\ step["recorder"] <= Missed
  THEN sample.value[Missed] \div 2 ELSE 0

Gaps(s) == (1 .. last_index[s]) \ seen[s]

\* The last index came, or none did yet; in order, it is the greatest that came.
LastCame ==
  \A s \in Sources :
    /\ last_index[s] \in seen[s] \/ (seen[s] = {} /\ last_index[s] = 0)
    /\ s \notin disordered => seen[s] \in SUBSET (0 .. last_index[s])

\* In order, what is reported and what is about to be are the gaps.
GapsCounted ==
  \A s \in Sources \ disordered : missed[s] + Unrecorded(s) = Cardinality(Gaps(s))

\* In any order, they are the messages skipped at least; and each one below one that
\* came has come or was skipped.
SkippedCounted ==
  \A s \in Sources :
    /\ IsFiniteSet(skipped[s])
    /\ missed[s] + Unrecorded(s) >= Cardinality(skipped[s])
    /\ \A i \in seen[s] : 1 .. (i - 1) \subseteq seen[s] \cup skipped[s]

MissedInv ==
  /\ LastCame /\ GapsCounted /\ SkippedCounted
  /\ missed \in [Sources -> Int]
  /\ seen \in [Sources -> SUBSET Nat] /\ skipped \in [Sources -> SUBSET Nat]
  /\ doing["recorder"] \in {"measured", "record"} => sample.source \in Sources

\* A message that comes in order skips the indexes between the last one and its own.
LEMMA NewGap ==
  ASSUME NEW last \in Nat, NEW index \in Nat, NEW came \in SUBSET (0 .. last),
         last \in came \/ (came = {} /\ last = 0),
         \A i \in came : i < index
  PROVE  /\ came \cup {index} \in SUBSET (0 .. index)
         /\ Cardinality((1 .. index) \ (came \cup {index}))
              = Cardinality((1 .. last) \ came) + MissedBetween(last, index)
         /\ MissedBetween(last, index) \in Nat
<1>. DEFINE old == (1 .. last) \ came
            gap == (last + 1) .. (index - 1)
<1>1. last <= index /\ (last = index => came = {} /\ last = 0)
  OBVIOUS
<1>2. came \cup {index} \in SUBSET (0 .. index)
  BY <1>1
<1>3. (1 .. index) \ (came \cup {index}) = old \cup gap
  <2>1. ASSUME NEW i PROVE i \in (1 .. index) \ (came \cup {index}) <=> i \in old \cup gap
    BY <1>1
  <2>. QED
    BY <2>1
<1>4. old \cap gap = {}
  OBVIOUS
<1>5. IsFiniteSet(old)
  <2>1. IsFiniteSet(1 .. last)
    BY FS_Interval
  <2>. QED
    BY <2>1, FS_Difference
<1>6. IsFiniteSet(gap) /\ Cardinality(gap) = MissedBetween(last, index)
  <2>1. /\ IsFiniteSet(gap)
        /\ Cardinality(gap) = IF last + 1 > index - 1 THEN 0 ELSE (index - 1) - (last + 1) + 1
    BY FS_Interval
  <2>2. (IF last + 1 > index - 1 THEN 0 ELSE (index - 1) - (last + 1) + 1)
          = MissedBetween(last, index)
    BY DEF MissedBetween, Greatest
  <2>. QED
    BY <2>1, <2>2
<1>7. Cardinality(old) \in Nat
  BY <1>5, FS_CardinalityType
<1>8. MissedBetween(last, index) \in Nat
  BY DEF MissedBetween, Greatest
<1>. HIDE DEF old, gap
<1>9. Cardinality(old \cup gap) = Cardinality(old) + Cardinality(gap)
  <2>1. Cardinality(old \cup gap) = Cardinality(old) + Cardinality(gap) - Cardinality(old \cap gap)
    BY <1>5, <1>6, FS_Union
  <2>2. Cardinality(old \cap gap) = 0
    BY <1>4, FS_EmptySet
  <2>. QED
    BY <1>6, <1>7, <1>8, <2>1, <2>2
<1>. QED
  BY <1>2, <1>3, <1>6, <1>8, <1>9 DEF old

\* A message that comes in any order skips none that the next one up from the last
\* one does not count.
LEMMA NewlySkipped ==
  ASSUME NEW last \in Nat, NEW index \in Nat,
         NEW came \in SUBSET Nat, NEW over \in SUBSET Nat,
         last \in came \/ (came = {} /\ last = 0),
         IsFiniteSet(over),
         \A i \in came : 1 .. (i - 1) \subseteq came \cup over,
         NEW now, now = over \cup ((1 .. index - 1) \ came)
  PROVE  /\ now \in SUBSET Nat /\ IsFiniteSet(now)
         /\ Cardinality(now) <= Cardinality(over) + MissedBetween(last, index)
         /\ Cardinality(now) \in Nat /\ Cardinality(over) \in Nat
         /\ MissedBetween(last, index) \in Nat
         /\ \A i \in came \cup {index} : 1 .. (i - 1) \subseteq (came \cup {index}) \cup now
<1>. DEFINE gap == (last + 1) .. (index - 1)
<1>1. IsFiniteSet(gap) /\ Cardinality(gap) = MissedBetween(last, index)
  <2>1. /\ IsFiniteSet(gap)
        /\ Cardinality(gap) = IF last + 1 > index - 1 THEN 0 ELSE (index - 1) - (last + 1) + 1
    BY FS_Interval
  <2>2. (IF last + 1 > index - 1 THEN 0 ELSE (index - 1) - (last + 1) + 1)
          = MissedBetween(last, index)
    BY DEF MissedBetween, Greatest
  <2>. QED
    BY <2>1, <2>2
<1>2. now \subseteq over \cup gap
  <2>1. ASSUME NEW k \in 1 .. (index - 1), k \notin came, k \notin over PROVE k \in gap
    <3>1. CASE came = {} /\ last = 0
      BY <3>1
    <3>2. CASE last \in came
      <4>1. k \notin 1 .. (last - 1) /\ k # last
        BY <2>1, <3>2
      <4>. QED
        BY <4>1
    <3>. QED
      BY <3>1, <3>2
  <2>. QED
    BY <2>1
<1>3. now \in SUBSET Nat
  OBVIOUS
<1>4. \A i \in came \cup {index} : 1 .. (i - 1) \subseteq (came \cup {index}) \cup now
  OBVIOUS
<1>5. MissedBetween(last, index) \in Nat
  BY DEF MissedBetween, Greatest
<1>. HIDE DEF gap
<1>6. /\ IsFiniteSet(over \cup gap)
      /\ Cardinality(over \cup gap) = Cardinality(over) + Cardinality(gap) - Cardinality(over \cap gap)
  BY <1>1, FS_Union
<1>7. Cardinality(over \cap gap) \in Nat
  <2>1. IsFiniteSet(over \cap gap)
    BY FS_Intersection
  <2>. QED
    BY <2>1, FS_CardinalityType
<1>8. IsFiniteSet(now) /\ Cardinality(now) <= Cardinality(over \cup gap)
  BY <1>2, <1>6, FS_Subset
<1>9. Cardinality(over) \in Nat /\ Cardinality(now) \in Nat
  BY <1>8, FS_CardinalityType
<1>10. Cardinality(now) <= Cardinality(over) + MissedBetween(last, index)
  BY <1>1, <1>5, <1>6, <1>7, <1>8, <1>9
<1>. QED
  BY <1>3, <1>4, <1>5, <1>8, <1>9, <1>10

LEMMA MissedInit == Init => MissedInv
<1>. SUFFICES ASSUME Init PROVE MissedInv
  OBVIOUS
<1>1. \A s \in Sources : /\ last_index[s] = 0 /\ seen[s] = {} /\ skipped[s] = {}
                         /\ missed[s] = 0 /\ Unrecorded(s) = 0
  BY DEF Init, Threads, Unrecorded
<1>2. \A s \in Sources : Gaps(s) = {}
  BY <1>1 DEF Gaps
<1>3. doing["recorder"] = "idle"
  BY DEF Init, Threads
<1>4. GapsCounted /\ SkippedCounted
  <2>1. IsFiniteSet({}) /\ Cardinality({}) = 0
    BY FS_EmptySet
  <2>2. GapsCounted
    BY <1>1, <1>2, <2>1 DEF GapsCounted
  <2>3. ASSUME NEW s \in Sources
        PROVE  /\ IsFiniteSet(skipped[s])
               /\ missed[s] + Unrecorded(s) >= Cardinality(skipped[s])
               /\ \A i \in seen[s] : 1 .. (i - 1) \subseteq seen[s] \cup skipped[s]
    <3>1. skipped[s] = {} /\ seen[s] = {} /\ missed[s] + Unrecorded(s) = 0
      BY <1>1
    <3>2. IsFiniteSet(skipped[s]) /\ Cardinality(skipped[s]) = 0
      BY <2>1, <3>1, Zenon
    <3>3. missed[s] + Unrecorded(s) >= Cardinality(skipped[s])
      BY <3>1, <3>2
    <3>. QED
      BY <3>1, <3>2, <3>3
  <2>. QED
    BY <2>2, <2>3 DEF SkippedCounted
<1>5. LastCame
  BY <1>1 DEF LastCame
<1>6. /\ missed \in [Sources -> Int]
      /\ seen \in [Sources -> SUBSET Nat] /\ skipped \in [Sources -> SUBSET Nat]
  BY DEF Init
<1>. QED
  BY <1>3, <1>4, <1>5, <1>6 DEF MissedInv

LEMMA MissedReceive ==
  ASSUME TypeOK, MissedInv,
         NEW s \in Sources, NEW index \in 0 .. MaxIndex, NEW values \in Samples,
         Receive(s, index, values)
  PROVE  MissedInv'
<1>. DEFINE gap == MissedBetween(last_index[s], index)
            now == skipped[s] \cup ((1 .. index - 1) \ seen[s])
            ordered == s \notin disordered /\ \A i \in seen[s] : i < index
<1>1. /\ doing["recorder"] = "idle" /\ doing' = [doing EXCEPT !["recorder"] = "measured"]
      /\ sample' = [value  |-> [t \in Trackers |-> IF t = Missed THEN 2 * gap ELSE values[t]],
                    first  |-> ~received, source |-> s]
      /\ last_index' = [last_index EXCEPT ![s] = index]
      /\ seen' = [seen EXCEPT ![s] = @ \cup {index}]
      /\ skipped' = [skipped EXCEPT ![s] = now]
      /\ missed' = missed /\ step' = step
  BY DEF Receive, Goes
<1>2. /\ index \in Nat /\ last_index[s] \in Nat
      /\ seen[s] \in SUBSET Nat /\ skipped[s] \in SUBSET Nat
      /\ \A r \in Sources : missed[r] \in Int
  BY MetricsAssumption DEF TypeOK, MissedInv
<1>3. \A r \in Sources : r \notin disordered' => r \notin disordered /\ (r = s => ordered)
  BY DEF Receive
<1>4. /\ last_index[s] \in seen[s] \/ (seen[s] = {} /\ last_index[s] = 0)
      /\ s \notin disordered => seen[s] \in SUBSET (0 .. last_index[s])
      /\ IsFiniteSet(skipped[s])
      /\ \A i \in seen[s] : 1 .. (i - 1) \subseteq seen[s] \cup skipped[s]
  BY DEF MissedInv, LastCame, SkippedCounted
<1>5. ASSUME ordered
      PROVE  /\ seen[s] \cup {index} \in SUBSET (0 .. index)
             /\ Cardinality((1 .. index) \ (seen[s] \cup {index})) = Cardinality(Gaps(s)) + gap
  BY <1>2, <1>4, <1>5, NewGap DEF Gaps
<1>6. /\ now \in SUBSET Nat /\ IsFiniteSet(now) /\ gap \in Nat
      /\ Cardinality(now) <= Cardinality(skipped[s]) + gap
      /\ Cardinality(now) \in Nat /\ Cardinality(skipped[s]) \in Nat
      /\ \A i \in seen[s] \cup {index} : 1 .. (i - 1) \subseteq (seen[s] \cup {index}) \cup now
  <2>. DEFINE last == last_index[s]
              came == seen[s]
              over == skipped[s]
  <2>1. last \in Nat /\ index \in Nat /\ came \in SUBSET Nat /\ over \in SUBSET Nat
    BY <1>2
  <2>2. /\ last \in came \/ (came = {} /\ last = 0)
        /\ IsFiniteSet(over) /\ \A i \in came : 1 .. (i - 1) \subseteq came \cup over
    BY <1>4
  <2>3. now = over \cup ((1 .. index - 1) \ came) /\ gap = MissedBetween(last, index)
    OBVIOUS
  <2>. HIDE DEF last, came, over, now, gap
  <2>4. /\ now \in SUBSET Nat /\ IsFiniteSet(now)
        /\ Cardinality(now) <= Cardinality(over) + MissedBetween(last, index)
        /\ Cardinality(now) \in Nat /\ Cardinality(over) \in Nat
        /\ MissedBetween(last, index) \in Nat
        /\ \A i \in came \cup {index} : 1 .. (i - 1) \subseteq (came \cup {index}) \cup now
    <3>1. PICK c, o, l, n : c = came /\ o = over /\ l = last /\ n = now
      OBVIOUS
    <3>2. /\ l \in Nat /\ index \in Nat /\ c \in SUBSET Nat /\ o \in SUBSET Nat
          /\ l \in c \/ (c = {} /\ l = 0)
          /\ IsFiniteSet(o) /\ \A i \in c : 1 .. (i - 1) \subseteq c \cup o
          /\ n = o \cup ((1 .. index - 1) \ c)
      BY <2>1, <2>2, <2>3, <3>1, Zenon
    <3>3. /\ n \in SUBSET Nat /\ IsFiniteSet(n)
          /\ Cardinality(n) <= Cardinality(o) + MissedBetween(l, index)
          /\ Cardinality(n) \in Nat /\ Cardinality(o) \in Nat
          /\ MissedBetween(l, index) \in Nat
          /\ \A i \in c \cup {index} : 1 .. (i - 1) \subseteq (c \cup {index}) \cup n
      BY <3>2, NewlySkipped, SMTT(60)
    <3>. QED
      BY <3>1, <3>3, Zenon
  <2>. QED
    BY <2>3, <2>4 DEF came, over
<1>. HIDE DEF gap, now, ordered
<1>7. /\ last_index'[s] = index /\ seen'[s] = seen[s] \cup {index} /\ skipped'[s] = now
      /\ \A r \in Sources \ {s} : /\ last_index'[r] = last_index[r]
                                  /\ seen'[r] = seen[r] /\ skipped'[r] = skipped[r]
  BY <1>1 DEF TypeOK, MissedInv
<1>8. /\ sample'.source = s /\ sample'.value[Missed] = 2 * gap
      /\ doing'["recorder"] = "measured"
  BY <1>1, TrackerSteps DEF TypeOK, Threads
<1>9. \A r \in Sources : Unrecorded(r) = 0 /\ Unrecorded(r)' = IF r = s THEN gap ELSE 0
  <2>1. (2 * gap) \div 2 = gap
    BY <1>6
  <2>. QED
    BY <1>1, <1>8, <2>1 DEF Unrecorded
<1>10. LastCame'
  BY <1>2, <1>3, <1>5, <1>7 DEF LastCame, MissedInv
<1>11. GapsCounted'
  <2>1. ASSUME NEW r \in Sources, r \notin disordered'
        PROVE  missed'[r] + Unrecorded(r)' = Cardinality(Gaps(r)')
    <3>1. missed'[r] = missed[r] /\ missed[r] + 0 = Cardinality(Gaps(r))
      BY <1>1, <1>3, <1>9, <2>1 DEF MissedInv, GapsCounted
    <3>2. CASE r = s
      <4>1. Gaps(s)' = (1 .. index) \ (seen[s] \cup {index})
        BY <1>7 DEF Gaps
      <4>2. ordered
        BY <1>3, <2>1, <3>2
      <4>3. Cardinality(Gaps(s)') = Cardinality(Gaps(s)) + gap
        BY <1>5, <4>1, <4>2
      <4>. QED
        BY <1>2, <1>6, <1>9, <3>1, <3>2, <4>3
    <3>3. CASE r # s
      <4>1. Gaps(r)' = Gaps(r)
        BY <1>7, <3>3 DEF Gaps
      <4>. QED
        BY <1>9, <3>1, <3>3, <4>1
    <3>. QED
      BY <3>2, <3>3
  <2>. QED
    BY <2>1 DEF GapsCounted
<1>12. SkippedCounted'
  <2>1. ASSUME NEW r \in Sources
        PROVE  /\ IsFiniteSet(skipped'[r])
               /\ missed'[r] + Unrecorded(r)' >= Cardinality(skipped'[r])
               /\ \A i \in seen'[r] : 1 .. (i - 1) \subseteq seen'[r] \cup skipped'[r]
    <3>1. missed'[r] = missed[r] /\ missed[r] \in Int
          /\ missed[r] + 0 >= Cardinality(skipped[r])
      BY <1>1, <1>2, <1>9 DEF MissedInv, SkippedCounted
    <3>2. CASE r = s
      <4>1. missed'[s] + Unrecorded(s)' >= Cardinality(now)
        BY <1>6, <1>9, <3>1, <3>2
      <4>. QED
        BY <1>6, <1>7, <3>2, <4>1
    <3>3. CASE r # s
      BY <1>7, <1>9, <3>1, <3>3 DEF MissedInv, SkippedCounted
    <3>. QED
      BY <3>2, <3>3
  <2>. QED
    BY <2>1 DEF SkippedCounted
<1>13. /\ missed' \in [Sources -> Int]
       /\ seen' \in [Sources -> SUBSET Nat] /\ skipped' \in [Sources -> SUBSET Nat]
  BY <1>1, <1>2, <1>6 DEF MissedInv
<1>. QED
  BY <1>8, <1>10, <1>11, <1>12, <1>13 DEF MissedInv

\* A step that keeps what is unrecorded.
LEMMA MissedSame ==
  ASSUME MissedInv, UNCHANGED <<last_index, seen, skipped, disordered, missed, sample>>,
         \A s \in Sources : Unrecorded(s)' = Unrecorded(s),
         doing'["recorder"] \in {"measured", "record"} => doing["recorder"] \in {"measured", "record"}
  PROVE  MissedInv'
<1>1. \A s \in Sources : Gaps(s)' = Gaps(s)
  BY DEF Gaps
<1>2. GapsCounted' /\ SkippedCounted'
  BY <1>1 DEF GapsCounted, SkippedCounted, MissedInv
<1>3. LastCame'
  BY DEF LastCame, MissedInv
<1>. QED
  BY <1>2, <1>3 DEF MissedInv

LEMMA MissedRecordOne ==
  ASSUME TypeOK, MissedInv, RecordOne
  PROVE  MissedInv'
<1>. DEFINE t == step["recorder"]
            v == sample.value[t]
            src == sample.source
<1>1. /\ doing["recorder"] = "record" /\ doing' = doing /\ t \in Trackers
      /\ missed' = IF t = Missed THEN [missed EXCEPT ![src] = @ + v \div 2] ELSE missed
      /\ step' = [step EXCEPT !["recorder"] = t + 1]
      /\ UNCHANGED <<last_index, seen, skipped, disordered, sample>>
  BY DEF RecordOne, AtTracker
<1>2. src \in Sources /\ step'["recorder"] = t + 1 /\ t \in Int /\ v \in Int
  BY <1>1, TrackerSteps DEF MissedInv, TypeOK, Threads
<1>3. CASE t # Missed
  <2>1. t <= Missed /\ t + 1 <= Missed
    BY <1>1, <1>3 DEF Trackers, Time, Missed
  <2>2. \A s \in Sources : Unrecorded(s)' = Unrecorded(s)
    BY <1>1, <1>2, <2>1 DEF Unrecorded
  <2>. QED
    BY <1>1, <1>3, <2>2, MissedSame
<1>4. CASE t = Missed
  <2>1. Missed <= Missed /\ ~(Missed + 1 <= Missed)
    BY DEF Missed
  <2>2. /\ \A s \in Sources : Unrecorded(s)' = 0
        /\ \A s \in Sources : Unrecorded(s) = IF s = src THEN v \div 2 ELSE 0
    BY <1>1, <1>2, <1>4, <2>1 DEF Unrecorded
  <2>3. v \div 2 \in Int
    BY <1>2
  <2>4. \A s \in Sources : missed'[s] = missed[s] + Unrecorded(s) /\ missed'[s] \in Int
    BY <1>1, <1>2, <1>4, <2>2, <2>3 DEF MissedInv
  <2>5. \A s \in Sources : Gaps(s)' = Gaps(s) /\ skipped'[s] = skipped[s] /\ seen'[s] = seen[s]
    BY <1>1 DEF Gaps
  <2>a. \A s \in Sources : missed'[s] + Unrecorded(s)' = missed[s] + Unrecorded(s)
    BY <2>2, <2>4
  <2>6. GapsCounted' /\ SkippedCounted'
    BY <1>1, <2>5, <2>a DEF MissedInv, GapsCounted, SkippedCounted
  <2>7. missed' \in [Sources -> Int]
    BY <1>1, <1>2, <1>4, <2>3 DEF MissedInv
  <2>8. LastCame'
    BY <1>1 DEF LastCame, MissedInv
  <2>. QED
    BY <1>1, <1>2, <2>6, <2>7, <2>8 DEF MissedInv
<1>. QED
  BY <1>3, <1>4

LEMMA MissedStep ==
  ASSUME Inv, MissedInv, [Next]_vars
  PROVE  MissedInv'
<1>. USE DEF Threads
<1>1. TypeOK /\ Held(doing, mtx)
  BY DEF Inv, TypeInv, MutexHeld
<1>2. doing \in [Threads -> {"idle", "measured", "record", "due", "publish", "reset"}]
      /\ step \in [Threads -> Time .. Missed + 1]
  BY <1>1 DEF TypeOK
<1>3. ASSUME NEW s \in Sources, NEW index \in 0 .. MaxIndex, NEW values \in Samples,
             Receive(s, index, values)
      PROVE  MissedInv'
  BY <1>1, <1>3, MissedReceive
<1>4. CASE RecordBegins
  <2>1. /\ doing["recorder"] = "measured" /\ doing'["recorder"] = "record"
        /\ step'["recorder"] = Time
        /\ UNCHANGED <<last_index, seen, skipped, disordered, missed, sample>>
    BY <1>2, <1>4 DEF RecordBegins, Goes, AtTracker, receiver
  <2>2. \A s \in Sources : Unrecorded(s)' = Unrecorded(s)
    BY <2>1 DEF Unrecorded, Time, Missed
  <2>. QED
    BY <2>1, <2>2, MissedSame
<1>5. CASE RecordOne
  BY <1>1, <1>5, MissedRecordOne
<1>6. ASSUME NEW due \in BOOLEAN, RecordEnds(due) PROVE MissedInv'
  <2>1. /\ doing["recorder"] = "record" /\ doing'["recorder"] \in {"due", "idle"}
        /\ step["recorder"] > Missed /\ step["recorder"] \in Int
        /\ UNCHANGED <<last_index, seen, skipped, disordered, missed, sample>>
    BY <1>2, <1>6 DEF RecordEnds, Goes, Time, Missed
  <2>2. \A s \in Sources : Unrecorded(s)' = Unrecorded(s)
    BY <2>1 DEF Unrecorded, Missed
  <2>. QED
    BY <2>1, <2>2, MissedSame
<1>7. ASSUME UNCHANGED <<last_index, seen, skipped, disordered, missed, sample>>,
             \/ doing'["recorder"] = doing["recorder"] /\ step'["recorder"] = step["recorder"]
             \/ /\ doing["recorder"] \in {"due", "publish"}
                /\ doing'["recorder"] \in {"publish", "idle"}
      PROVE  MissedInv'
  <2>1. \A s \in Sources : Unrecorded(s)' = Unrecorded(s)
    BY <1>7 DEF Unrecorded
  <2>. QED
    BY <1>7, <2>1, MissedSame
<1>8. ASSUME NEW th \in {"trigger", "recorder"}, PublishBegins(th) PROVE MissedInv'
  <2>1. /\ UNCHANGED <<last_index, seen, skipped, disordered, missed, sample>>
        /\ doing' = [doing EXCEPT ![th] = "publish"]
        /\ th = "recorder" => doing["recorder"] = "due"
        /\ step' = [step EXCEPT ![th] = Time]
    BY <1>8 DEF PublishBegins, Goes, AtTracker, receiver
  <2>. QED
    BY <1>2, <1>7, <2>1
<1>9. ASSUME NEW th \in Threads, ResetOne(th) PROVE MissedInv'
  <2>1. /\ UNCHANGED <<last_index, seen, skipped, disordered, missed, sample>> /\ doing' = doing
        /\ doing[th] \in {"publish", "reset"} /\ step' = [step EXCEPT ![th] = step[th] + 1]
    BY <1>9 DEF ResetOne, AtTracker, receiver
  <2>2. th = "recorder" => doing["recorder"] = "publish"
    BY <1>1, <2>1 DEF Held
  <2>. QED
    BY <1>2, <1>7, <2>1, <2>2
<1>10. ASSUME NEW th \in {"trigger", "recorder"}, PublishEnds(th) PROVE MissedInv'
  <2>1. /\ UNCHANGED <<last_index, seen, skipped, disordered, missed, sample>> /\ step' = step
        /\ doing[th] = "publish" /\ doing' = [doing EXCEPT ![th] = "idle"]
    BY <1>10 DEF PublishEnds, Goes, receiver
  <2>. QED
    BY <1>2, <1>7, <2>1
<1>11. CASE ResetBegins \/ ResetEnds
  <2>1. /\ UNCHANGED <<last_index, seen, skipped, disordered, missed, sample>>
        /\ doing'["recorder"] = doing["recorder"] /\ step'["recorder"] = step["recorder"]
    BY <1>2, <1>11 DEF ResetBegins, ResetEnds, Goes, AtTracker, receiver
  <2>. QED
    BY <1>7, <2>1
<1>12. CASE UNCHANGED vars
  BY <1>7, <1>12 DEF vars, receiver
<1>. QED
  BY <1>3, <1>4, <1>5, <1>6, <1>8, <1>9, <1>10, <1>11, <1>12
     DEF Next, Recording, Publishing, Resetting

THEOREM MissedInvCorrect == Spec => []MissedInv
BY MissedInit, MissedStep, InvCorrect, PTL DEF Spec

\* No gap is overlooked: for any sources that take turns in any way, and whatever
\* comes of each in whatever order and however often, as many messages are reported
\* as missed as had not come when a later one did.
THEOREM OverlooksNoGap == Spec => []NoGapOverlooked
<1>1. MissedInv => NoGapOverlooked
  <2>. SUFFICES ASSUME MissedInv, NEW s \in Sources, NothingToRecord
                PROVE  missed[s] >= Cardinality(skipped[s])
    BY DEF NoGapOverlooked
  <2>1. Unrecorded(s) = 0 /\ missed[s] \in Int
    BY DEF Unrecorded, NothingToRecord, MissedInv
  <2>2. missed[s] + 0 >= Cardinality(skipped[s])
    BY <2>1 DEF MissedInv, SkippedCounted
  <2>. QED
    BY <2>1, <2>2
<1>. QED
  BY <1>1, MissedInvCorrect, PTL

\* The missed messages reported of a source whose messages come in order are the
\* gaps in what came of it, each one once, for any sources that take turns in any
\* way and whatever order those of the others come in.
THEOREM CountsMissedOnce == Spec => []MissedAreSkipped
<1>1. MissedInv => MissedAreSkipped
  <2>. SUFFICES ASSUME MissedInv, NEW s \in Sources \ disordered, NothingToRecord
                PROVE  missed[s] = Cardinality((1 .. last_index[s]) \ seen[s])
    BY DEF MissedAreSkipped
  <2>1. Unrecorded(s) = 0 /\ missed[s] \in Int
    BY DEF Unrecorded, NothingToRecord, MissedInv
  <2>2. missed[s] + 0 = Cardinality(Gaps(s))
    BY <2>1 DEF MissedInv, GapsCounted
  <2>. QED
    BY <2>1, <2>2 DEF Gaps
<1>. QED
  BY <1>1, MissedInvCorrect, PTL

-----------------------------------------------------------------------------
(* Folds over sequences of integers.  FoldLeft recurs on the sets of        *)
(* indexes, each without its greatest; the lemmas say what that comes to.   *)

\* A set of numbers that is not empty has a least element.
LEMMA LeastNumber ==
  ASSUME NEW T, T \subseteq Nat, T # {}
  PROVE  \E x \in T : \A y \in T : x <= y
<1>1. IsWellFoundedOn(OpToRel(<, Nat), Nat)
  BY NatLessThanWellFounded
<1>2. PICK x \in T : \A y \in T : ~ (<<y, x>> \in OpToRel(<, Nat))
  BY <1>1, WFMin
<1>3. \A y \in T : ~ (y < x)
  BY <1>2 DEF OpToRel
<1>. QED
  BY <1>3

\* The greatest of some of the numbers up to n.
LEMMA MaxOfSome ==
  ASSUME NEW n \in Nat, NEW S \in SUBSET (1 .. n), S # {}
  PROVE  Max(S) \in S /\ Max(S) \in 1 .. n /\ \A y \in S : Max(S) >= y
<1>. DEFINE T == {n - x : x \in S}
<1>1. T \subseteq Nat /\ T # {}
  <2>1. \A x \in S : n - x \in Nat
    OBVIOUS
  <2>. QED
    BY <2>1
<1>2. PICK d \in T : \A e \in T : d <= e
  <2>. HIDE DEF T
  <2>. QED
    BY <1>1, LeastNumber
<1>3. PICK x \in S : d = n - x
  BY <1>2
<1>4. \A y \in S : x >= y
  <2>. TAKE y \in S
  <2>1. n - y \in T
    OBVIOUS
  <2>2. d <= n - y
    BY <1>2, <2>1
  <2>. QED
    BY <1>3, <2>2
<1>5. Max(S) \in S /\ \A y \in S : Max(S) >= y
  BY <1>4 DEF Max
<1>. QED
  BY <1>5

LEMMA MaxIsLast ==
  ASSUME NEW n \in Nat, NEW S \in SUBSET (1 .. n), n \in S
  PROVE  Max(S) = n
<1>1. Max(S) \in 1 .. n /\ Max(S) >= n
  BY MaxOfSome
<1>. QED
  BY <1>1

\* The numbers up to n + 1, without the last.
LEMMA WithoutLast ==
  ASSUME NEW n \in Nat
  PROVE  (1 .. (n + 1)) \ {n + 1} = 1 .. n /\ 1 .. (n + 1) # {}
OBVIOUS

\* f is what a fold of s with the function G gives on the sets of indexes.
FoldsTo(G, base, s, f) ==
  /\ f \in [SUBSET (1 .. Len(s)) -> Int]
  /\ \A S \in SUBSET (1 .. Len(s)) :
       f[S] = IF S = {} THEN base ELSE G[f[S \ {Max(S)}]][s[Max(S)]]

LEMMA FoldExists ==
  ASSUME NEW G \in [Int -> [Int -> Int]], NEW base \in Int, NEW s \in Seq(Int)
  PROVE  \E f : FoldsTo(G, base, s, f)
<1>. DEFINE Has(n) == \E f \in [SUBSET (1 .. n) -> Int] :
              \A S \in SUBSET (1 .. n) :
                f[S] = IF S = {} THEN base ELSE G[f[S \ {Max(S)}]][s[Max(S)]]
            Bad == {n \in 0 .. Len(s) : ~Has(n)}
<1>1. Len(s) \in Nat /\ \A i \in 1 .. Len(s) : s[i] \in Int
  BY LenProperties, ElementOfSeq
<1>2. Has(0)
  <2>. DEFINE f == [S \in SUBSET (1 .. 0) |-> base]
  <2>1. 1 .. 0 = {}
    OBVIOUS
  <2>2. \A S \in SUBSET (1 .. 0) : S = {} /\ f[S] = base
    BY <2>1
  <2>3. f \in [SUBSET (1 .. 0) -> Int]
    OBVIOUS
  <2>. HIDE DEF f
  <2>. QED
    BY <2>2, <2>3
<1>3. ASSUME NEW n \in 1 .. Len(s), Has(n - 1) PROVE Has(n)
  <2>1. PICK f \in [SUBSET (1 .. (n - 1)) -> Int] :
              \A S \in SUBSET (1 .. (n - 1)) :
                f[S] = IF S = {} THEN base ELSE G[f[S \ {Max(S)}]][s[Max(S)]]
    BY <1>3
  <2>. DEFINE g == [S \in SUBSET (1 .. n) |->
                      IF n \in S THEN G[f[S \ {n}]][s[n]] ELSE f[S]]
  <2>2. \A S \in SUBSET (1 .. n) : S \ {n} \in SUBSET (1 .. (n - 1))
    BY <1>1
  <2>3. g \in [SUBSET (1 .. n) -> Int]
    <3>1. ASSUME NEW S \in SUBSET (1 .. n) PROVE g[S] \in Int
      <4>1. f[S \ {n}] \in Int /\ s[n] \in Int
        BY <1>1, <2>2
      <4>2. CASE n \in S
        <5>1. g[S] = G[f[S \ {n}]][s[n]]
          BY <4>2
        <5>2. G[f[S \ {n}]] \in [Int -> Int]
          BY <4>1
        <5>3. G[f[S \ {n}]][s[n]] \in Int
          BY <4>1, <5>2
        <5>. QED
          BY <5>1, <5>3
      <4>3. CASE n \notin S
        <5>1. g[S] = f[S] /\ S = S \ {n}
          BY <4>3
        <5>. QED
          BY <4>1, <5>1
      <4>. QED
        BY <4>2, <4>3
    <3>. QED
      BY <3>1
  <2>4. ASSUME NEW S \in SUBSET (1 .. n)
        PROVE  g[S] = IF S = {} THEN base ELSE G[g[S \ {Max(S)}]][s[Max(S)]]
    <3>1. CASE n \in S
      <4>1. Max(S) = n
        BY <1>1, <3>1, MaxIsLast
      <4>2. g[S \ {n}] = f[S \ {n}] /\ g[S] = G[f[S \ {n}]][s[n]]
        BY <2>2, <3>1
      <4>. QED
        BY <3>1, <4>1, <4>2
    <3>2. CASE n \notin S
      <4>1. S \in SUBSET (1 .. (n - 1)) /\ S = S \ {n}
        BY <2>2, <3>2
      <4>2. g[S] = f[S] /\ \A x : g[S \ {x}] = f[S \ {x}]
        BY <3>2, <4>1
      <4>. QED
        BY <2>1, <4>1, <4>2
    <3>. QED
      BY <3>1, <3>2
  <2>. HIDE DEF g
  <2>. QED
    BY <2>3, <2>4
<1>4. SUFFICES ASSUME ~Has(Len(s)) PROVE FALSE
  BY DEF FoldsTo
<1>. HIDE DEF Has
<1>5. Bad \subseteq 0 .. Len(s) /\ Len(s) \in Bad /\ 0 \notin Bad
  BY <1>1, <1>2, <1>4
<1>6. PICK n \in Bad : \A m \in Bad : n <= m
  <2>. HIDE DEF Bad
  <2>1. \A k \in 0 .. Len(s) : k \in Nat
    BY <1>1
  <2>2. Bad \subseteq Nat /\ Bad # {}
    BY <1>5, <2>1
  <2>. QED
    BY <2>2, LeastNumber
<1>7. n \in 1 .. Len(s) /\ n - 1 \in 0 .. Len(s) /\ n - 1 \notin Bad
  <2>. HIDE DEF Bad
  <2>1. n \in 0 .. Len(s) /\ n # 0
    BY <1>5, <1>6
  <2>2. n \in 1 .. Len(s) /\ n - 1 \in 0 .. Len(s) /\ n - 1 < n
    BY <1>1, <2>1
  <2>3. n - 1 \notin Bad
    BY <1>1, <1>6, <2>2
  <2>. QED
    BY <2>2, <2>3
<1>. QED
  BY <1>1, <1>3, <1>6, <1>7

\* f and g recur alike on the sets of indexes up to n.
RecurAlike(n, f, g) ==
  /\ f[{}] = g[{}]
  /\ \A S \in SUBSET (1 .. n) :
       S # {} /\ f[S \ {Max(S)}] = g[S \ {Max(S)}] => f[S] = g[S]

LEMMA FoldUnique ==
  ASSUME NEW n \in Nat, NEW f, NEW g, RecurAlike(n, f, g)
  PROVE  \A S \in SUBSET (1 .. n) : f[S] = g[S]
<1>. DEFINE Bad == {m \in 0 .. n : \E S \in SUBSET (1 .. m) : f[S] # g[S]}
<1>1. SUFFICES ASSUME Bad # {} PROVE FALSE
  <2>1. ASSUME NEW S \in SUBSET (1 .. n), f[S] # g[S] PROVE n \in Bad
    BY <2>1
  <2>. QED
    BY <2>1
<1>2. PICK m \in Bad : \A k \in Bad : m <= k
  <2>1. Bad \subseteq Nat
    OBVIOUS
  <2>. HIDE DEF Bad
  <2>. QED
    BY <1>1, <2>1, LeastNumber
<1>3. PICK S \in SUBSET (1 .. m) : f[S] # g[S]
  BY <1>2
<1>a. S # {}
  BY <1>3 DEF RecurAlike
<1>0. m \in 0 .. n /\ m \in Nat /\ S # {}
  BY <1>2, <1>a
<1>4. S # {} /\ Max(S) \in S /\ \A y \in S : Max(S) >= y
  BY <1>0, MaxOfSome
<1>. DEFINE k == Max(S)
            R == S \ {k}
<1>5. k \in 1 .. m /\ \A y \in R : y \in 1 .. m /\ k >= y /\ y # k
  BY <1>4
<1>6. R \in SUBSET (1 .. (k - 1)) /\ k - 1 \in 0 .. n /\ k - 1 < m
  <2>. HIDE DEF k, R
  <2>1. \A y \in R : y \in 1 .. (k - 1)
    BY <1>0, <1>5
  <2>. QED
    BY <1>0, <1>5, <2>1
<1>7. f[R] # g[R]
  <2>1. S \in SUBSET (1 .. n)
    BY <1>0
  <2>. QED
    BY <1>3, <1>4, <2>1 DEF RecurAlike
<1>8. k - 1 \in Bad
  BY <1>6, <1>7
<1>. HIDE DEF Bad, k, R
<1>. QED
  BY <1>0, <1>2, <1>5, <1>6, <1>8

\* A fold of one more value is G of the fold so far and of that value.
LEMMA FoldOfAppend ==
  ASSUME NEW G \in [Int -> [Int -> Int]], NEW base \in Int, NEW s \in Seq(Int), NEW v \in Int,
         NEW f, FoldsTo(G, base, s, f), NEW g, FoldsTo(G, base, Append(s, v), g)
  PROVE  g[1 .. Len(Append(s, v))] = G[f[1 .. Len(s)]][v] /\ f[1 .. Len(s)] \in Int
<1>. DEFINE r == Append(s, v)
            n == Len(s)
<1>1. /\ n \in Nat /\ Len(r) = n + 1 /\ r[n + 1] = v
      /\ \A i \in 1 .. n : r[i] = s[i]
  BY AppendProperties, LenProperties
<1>2. /\ \A S \in SUBSET (1 .. n) :
           f[S] = IF S = {} THEN base ELSE G[f[S \ {Max(S)}]][s[Max(S)]]
      /\ \A S \in SUBSET (1 .. (n + 1)) :
           g[S] = IF S = {} THEN base ELSE G[g[S \ {Max(S)}]][r[Max(S)]]
      /\ f[1 .. n] \in Int
  BY <1>1 DEF FoldsTo
<1>. HIDE DEF n, r
<1>3. \A S \in SUBSET (1 .. n) : f[S] = g[S]
  <2>1. f[{}] = g[{}]
    BY <1>2
  <2>2. ASSUME NEW S \in SUBSET (1 .. n), S # {}, f[S \ {Max(S)}] = g[S \ {Max(S)}]
        PROVE  f[S] = g[S]
    <3>1. Max(S) \in 1 .. n
      BY <1>1, <2>2, MaxOfSome
    <3>2. S \in SUBSET (1 .. (n + 1))
      BY <1>1
    <3>3. f[S] = G[f[S \ {Max(S)}]][s[Max(S)]]
      BY <1>2, <2>2
    <3>4. g[S] = G[g[S \ {Max(S)}]][r[Max(S)]]
      BY <1>2, <2>2, <3>2
    <3>5. r[Max(S)] = s[Max(S)]
      BY <1>1, <3>1
    <3>. QED
      BY <2>2, <3>3, <3>4, <3>5, Zenon
  <2>3. RecurAlike(n, f, g)
    BY <2>1, <2>2 DEF RecurAlike
  <2>. QED
    BY <1>1, <2>3, FoldUnique
<1>4. Max(1 .. (n + 1)) = n + 1
  <2>1. n + 1 \in Nat /\ n + 1 \in 1 .. (n + 1)
    BY <1>1
  <2>. QED
    BY <2>1, MaxIsLast
<1>5. (1 .. (n + 1)) \ {n + 1} = 1 .. n /\ 1 .. (n + 1) # {}
  <2>1. n \in Nat
    BY <1>1
  <2>. QED
    BY <2>1, WithoutLast
<1>6. g[1 .. (n + 1)] = G[g[1 .. n]][r[n + 1]]
  BY <1>2, <1>4, <1>5
<1>7. g[1 .. n] = f[1 .. n]
  BY <1>3
<1>. QED
  BY <1>1, <1>2, <1>6, <1>7 DEF n, r

\* A fold of nothing.
LEMMA FoldOfNone ==
  ASSUME NEW G, NEW base, NEW f, FoldsTo(G, base, << >>, f)
  PROVE  f[1 .. Len(<< >>)] = base
<1>1. 1 .. Len(<< >>) = {}
  BY EmptySeq
<1>. QED
  BY <1>1 DEF FoldsTo

-----------------------------------------------------------------------------
(* The totals of TracksSamples.                                            *)

Plus == [x \in Int |-> [y \in Int |-> x + y]]

LEMMA TotalFolds ==
  ASSUME NEW s \in Seq(Int), NEW f, FoldsTo(Plus, 0, s, f)
  PROVE  Total(s) = f[1 .. Len(s)]
<1>. DEFINE D == 1 .. Len(s)
            Body(h) == [S \in SUBSET D |-> IF S = {} THEN 0 ELSE h[S \ {Max(S)}] + s[Max(S)]]
            h == CHOOSE h : h = Body(h)
<1>1. DOMAIN s = D /\ Len(s) \in Nat /\ \A i \in D : s[i] \in Int
  BY LenProperties, ElementOfSeq
<1>2. Total(s) = h[D]
  BY <1>1 DEF Total, FoldLeft, MapThenFoldSet
<1>3. \A S \in SUBSET D : S # {} => Max(S) \in D
  BY <1>1, MaxOfSome
<1>4. f = Body(f)
  <2>1. \A S \in SUBSET D : f[S] = IF S = {} THEN 0 ELSE f[S \ {Max(S)}] + s[Max(S)]
    BY <1>1, <1>3 DEF FoldsTo, Plus
  <2>2. f \in [SUBSET D -> Int]
    BY DEF FoldsTo
  <2>. QED
    BY <2>1, <2>2
<1>5. h = Body(h)
  BY <1>4
<1>. HIDE DEF h
<1>6. \A S \in SUBSET D : f[S] = h[S]
  <2>1. /\ \A S \in SUBSET D : f[S] = IF S = {} THEN 0 ELSE f[S \ {Max(S)}] + s[Max(S)]
        /\ \A S \in SUBSET D : h[S] = IF S = {} THEN 0 ELSE h[S \ {Max(S)}] + s[Max(S)]
    BY <1>4, <1>5
  <2>2. f[{}] = h[{}] /\ \A S \in SUBSET D :
           S # {} /\ f[S \ {Max(S)}] = h[S \ {Max(S)}] => f[S] = h[S]
    BY <2>1
  <2>3. RecurAlike(Len(s), f, h)
    BY <2>2 DEF RecurAlike
  <2>. QED
    BY <1>1, <2>3, FoldUnique
<1>. QED
  BY <1>2, <1>6

\* The total of a sequence with one more value.
LEMMA TotalOfAppend ==
  ASSUME NEW s \in Seq(Int), NEW v \in Int
  PROVE  Total(s) \in Int /\ Total(Append(s, v)) = Total(s) + v
<1>. DEFINE r == Append(s, v)
<1>1. r \in Seq(Int)
  BY AppendProperties
<1>. HIDE DEF r
<1>2. Plus \in [Int -> [Int -> Int]] /\ 0 \in Int
  BY DEF Plus
<1>3. PICK f : FoldsTo(Plus, 0, s, f)
  BY <1>2, FoldExists
<1>4. PICK g : FoldsTo(Plus, 0, r, g)
  BY <1>1, <1>2, FoldExists
<1>5. Total(s) = f[1 .. Len(s)] /\ Total(r) = g[1 .. Len(r)]
  BY <1>1, <1>3, <1>4, TotalFolds
<1>6. g[1 .. Len(r)] = Plus[f[1 .. Len(s)]][v] /\ f[1 .. Len(s)] \in Int
  BY <1>2, <1>3, <1>4, FoldOfAppend DEF r
<1>. QED
  BY <1>5, <1>6 DEF Plus, r

LEMMA TotalOfNone == Total(<< >>) = 0
<1>1. << >> \in Seq(Int)
  BY EmptySeq
<1>2. Plus \in [Int -> [Int -> Int]] /\ 0 \in Int
  BY DEF Plus
<1>3. PICK f : FoldsTo(Plus, 0, << >>, f)
  BY <1>1, <1>2, FoldExists
<1>. QED
  BY <1>1, <1>3, TotalFolds, FoldOfNone

LEMMA SquaresOfAppend ==
  ASSUME NEW s \in Seq(Int), NEW v \in Int
  PROVE  Squares(s) \in Seq(Int) /\ Squares(Append(s, v)) = Append(Squares(s), v * v)
<1>. DEFINE r == Append(s, v)
            n == Len(s)
            q == Squares(s)
<1>1. /\ n \in Nat /\ DOMAIN s = 1 .. n /\ Len(r) = n + 1 /\ r[n + 1] = v
      /\ r \in Seq(Int)
      /\ \A i \in 1 .. n : r[i] = s[i] /\ s[i] \in Int
  BY AppendProperties, LenProperties, ElementOfSeq
<1>2. DOMAIN r = 1 .. (n + 1)
  BY <1>1, LenProperties
<1>3. q = [i \in 1 .. n |-> s[i] * s[i]]
  BY <1>1 DEF Squares
<1>4. q \in Seq(Int) /\ Len(q) = n
  <2>1. q \in [1 .. n -> Int]
    BY <1>1, <1>3
  <2>2. q \in Seq(Int)
    BY <1>1, <2>1, SeqDef
  <2>. QED
    BY <1>1, <2>1, <2>2, LenProperties
<1>5. Squares(r) = [i \in 1 .. (n + 1) |-> r[i] * r[i]]
  BY <1>2 DEF Squares
<1>. HIDE DEF n, q, r
<1>6. Append(q, v * v) = [i \in 1 .. (n + 1) |-> IF i = n + 1 THEN v * v ELSE q[i]]
  BY <1>4
<1>7. \A i \in 1 .. (n + 1) : r[i] * r[i] = IF i = n + 1 THEN v * v ELSE q[i]
  <2>. TAKE i \in 1 .. (n + 1)
  <2>1. CASE i = n + 1
    BY <1>1, <2>1
  <2>2. CASE i # n + 1
    <3>1. i \in 1 .. n
      BY <1>1, <2>2
    <3>. QED
      BY <1>1, <1>3, <2>2, <3>1
  <2>. QED
    BY <2>1, <2>2
<1>8. Squares(r) = Append(q, v * v)
  BY <1>5, <1>6, <1>7
<1>. QED
  BY <1>4, <1>8 DEF q, r

-----------------------------------------------------------------------------
(* Welford's recurrence.                                                   *)

LEMMA Cancels ==
  ASSUME NEW a \in Nat \ {0}, NEW x \in Int, NEW y \in Int, a * x = a * y
  PROVE  x = y
<1>1. CASE x < y
  <2>1. a * x < a * y
    BY <1>1
  <2>. QED BY <2>1
<1>2. CASE y < x
  <2>1. a * y < a * x
    BY <1>2
  <2>. QED BY <2>1
<1>. QED BY <1>1, <1>2

LEMMA Divides ==
  ASSUME NEW a \in Nat \ {0}, NEW x \in Int
  PROVE  (a * x) \div a = x
OBVIOUS

LEMMA Modulo ==
  ASSUME NEW a \in Nat \ {0}, NEW s \in Nat, s % a = 0
  PROVE  \E k \in Nat : s = a * k
<1>1. s = a * (s \div a) + (s % a)
  OBVIOUS
<1>2. s \div a \in Nat
  OBVIOUS
<1>. QED BY <1>1, <1>2

LEMMA Regroup ==
  ASSUME NEW n \in Nat, NEW K \in Nat, NEW x \in Int
  PROVE  (n + 1) * (n * K * x) = (n * (n + 1) * K) * x
OBVIOUS

\* S is a multiple of both numbers.
Exact(n, S) == \E K \in Nat : S = n * (n + 1) * K

\* mean and m2 count 1/S; they are those of n values with the sum T and the sum
\* of squares Q.
Means(n, S, T, Q, mean, m2) == n * mean = S * T /\ n * m2 = S * (n * Q - T * T)

LEMMA Welford ==
  ASSUME NEW n \in Nat \ {0}, NEW S \in Nat \ {0}, Exact(n, S),
         NEW T \in Int, NEW Q \in Int, NEW mean \in Int, NEW m2 \in Int,
         Means(n, S, T, Q, mean, m2), NEW v \in Int,
         NEW mean2, mean2 = mean + (S * v - mean) \div (n + 1),
         NEW m22, m22 = m2 + ((S * v - mean) * (S * v - mean2)) \div S
  PROVE  Means(n + 1, S, T + v, Q + v * v, mean2, m22)
<1>0. PICK K \in Nat : S = n * (n + 1) * K
  BY DEF Exact
<1>. DEFINE W == n * v - T
           D == K * W
           delta == S * v - mean
           prod == delta * (S * v - mean2)
<1>. USE <1>0 DEF Means
<1>1. W \in Int /\ D \in Int
  OBVIOUS
<1>2. mean = (n + 1) * K * T
  <2>1. n * mean = n * ((n + 1) * K * T)
    OBVIOUS
  <2>. QED
    BY <2>1, Cancels
<1>3. delta = (n + 1) * D
  BY <1>2
<1>4. delta \div (n + 1) = D
  <2>. DEFINE p == n + 1
  <2>1. p \in Nat \ {0} /\ delta = p * D
    BY <1>3
  <2>. HIDE DEF p, D, delta
  <2>2. delta \div p = D
    BY <1>1, <2>1, Divides
  <2>. QED
    BY <2>2 DEF p
<1>5. mean2 = n * K * (T + v)
  BY <1>2, <1>4
<1>6. S * v - mean2 = n * D
  BY <1>5
<1>7. prod = S * (K * (W * W))
  <2>1. prod = ((n + 1) * D) * (n * D)
    BY <1>3, <1>6
  <2>. HIDE DEF W, prod
  <2>. QED
    BY <1>1, <2>1
<1>8. prod \div S = K * (W * W)
  <2>. DEFINE q == K * (W * W)
  <2>1. q \in Int /\ prod = S * q
    BY <1>1, <1>7
  <2>. HIDE DEF q, prod
  <2>2. prod \div S = q
    BY <2>1, Divides
  <2>. QED
    BY <2>2 DEF q
<1>9. m2 = (n + 1) * K * (n * Q - T * T)
  <2>. DEFINE x == (n + 1) * K * (n * Q - T * T)
  <2>1. n * m2 = n * x /\ x \in Int
    OBVIOUS
  <2>. HIDE DEF x
  <2>2. m2 = x
    BY <2>1, Cancels
  <2>. QED
    BY <2>2 DEF x
<1>10. (n + 1) * mean2 = S * (T + v)
  <2>1. T + v \in Int
    OBVIOUS
  <2>2. (n + 1) * (n * K * (T + v)) = (n * (n + 1) * K) * (T + v)
    BY <2>1, Regroup
  <2>. QED
    BY <1>0, <1>5, <2>2, Zenon
<1>11. m22 = (n + 1) * K * (n * Q - T * T) + K * ((n * v - T) * (n * v - T))
  BY <1>8, <1>9
<1>12. (n + 1) * m22 = S * ((n + 1) * (Q + v * v) - (T + v) * (T + v))
  BY <1>11
<1>. QED
  BY <1>10, <1>12

-----------------------------------------------------------------------------
(* The trackers and the values recorded.                                   *)

\* No value of s is outside the extremes of the tracker r.  Each extreme is one of
\* them or is still the one that the tracker starts from; the least one starts from
\* a value that none is above.
Extremes(s, r) ==
  /\ \A i \in 1 .. Len(s) : r.min <= s[i] /\ s[i] <= r.max /\ s[i] <= Huge
  /\ r.min = Huge \/ \E i \in 1 .. Len(s) : s[i] = r.min
  /\ r.max = Tiny \/ \E i \in 1 .. Len(s) : s[i] = r.max

\* The tracker r sums up the values s.  Of no values there is no mean; the
\* recurrence starts from 0.
SumsUp(s, r) ==
  LET n == Len(s) IN
  /\ r.count = n
  /\ r.total = Total(s)
  /\ n * r.mean = Scale * Total(s)
  /\ n * r.m2 = Scale * (n * Total(Squares(s)) - Total(s) * Total(s))
  /\ Extremes(s, r)
  /\ n = 0 => r.mean = 0 /\ r.m2 = 0

LEMMA ExtremesOfAppend ==
  ASSUME NEW s \in Seq(Int), NEW r \in Tracker, Extremes(s, r),
         NEW v \in Int, v <= Huge
  PROVE  Extremes(Append(s, v), RecordValue(r, v))
<1>. DEFINE next == Append(s, v)
            n == Len(s)
            max == Greatest(r.max, v)
            min == Least(r.min, v)
<1>1. /\ n \in Nat /\ Len(next) = n + 1 /\ next[n + 1] = v
      /\ \A i \in 1 .. n : next[i] = s[i] /\ s[i] \in Int
  BY AppendProperties, LenProperties, ElementOfSeq
<1>2. r.max \in Int /\ r.min \in Int /\ Huge \in Int /\ Tiny \in Int
  BY MetricsAssumption DEF Tracker, Tiny
<1>3. RecordValue(r, v).max = max /\ RecordValue(r, v).min = min
  BY DEF RecordValue
<1>4. /\ max \in {r.max, v} /\ r.max <= max /\ v <= max
      /\ min \in {r.min, v} /\ min <= r.min /\ min <= v
  BY <1>2 DEF Greatest, Least
<1>5. /\ \A i \in 1 .. n : r.min <= s[i] /\ s[i] <= r.max /\ s[i] <= Huge
      /\ r.min = Huge \/ \E i \in 1 .. n : s[i] = r.min
      /\ r.max = Tiny \/ \E i \in 1 .. n : s[i] = r.max
  BY DEF Extremes
<1>. HIDE DEF next, n, max, min
<1>6. max \in Int /\ min \in Int
  BY <1>2, <1>4
<1>7. ASSUME NEW i \in 1 .. (n + 1)
      PROVE  min <= next[i] /\ next[i] <= max /\ next[i] <= Huge
  <2>1. CASE i = n + 1
    BY <1>1, <1>4, <2>1
  <2>2. CASE i # n + 1
    <3>1. i \in 1 .. n
      BY <1>1, <2>2
    <3>. QED
      BY <1>1, <1>2, <1>4, <1>5, <1>6, <3>1
  <2>. QED
    BY <2>1, <2>2
<1>8. \A x : (\E i \in 1 .. n : s[i] = x) \/ x = v => \E i \in 1 .. (n + 1) : next[i] = x
  <2>1. n + 1 \in 1 .. (n + 1) /\ 1 .. n \subseteq 1 .. (n + 1)
    BY <1>1
  <2>. QED
    BY <1>1, <2>1
<1>9. /\ min = Huge \/ \E i \in 1 .. (n + 1) : next[i] = min
      /\ max = Tiny \/ \E i \in 1 .. (n + 1) : next[i] = max
  BY <1>4, <1>5, <1>8
<1>10. Len(next) = n + 1
  BY <1>1
<1>. QED
  BY <1>3, <1>7, <1>9, <1>10 DEF Extremes, next

\* The extremes are the best values: the least always, the greatest if some value
\* is positive.
LEMMA ExtremesAreBest ==
  ASSUME NEW s \in Seq(Int), NEW r \in Tracker, Extremes(s, r)
  PROVE  /\ Len(s) > 0 => IsBest(r.min, s, Smaller)
         /\ (\E i \in 1 .. Len(s) : s[i] > 0) => IsBest(r.max, s, Greater)
<1>1. Len(s) \in Nat /\ DOMAIN s = 1 .. Len(s) /\ \A i \in 1 .. Len(s) : s[i] \in Int
  BY LenProperties, ElementOfSeq
<1>2. r.max \in Int /\ r.min \in Int /\ Huge \in Int
  BY MetricsAssumption DEF Tracker
<1>3. ASSUME Len(s) > 0 PROVE IsBest(r.min, s, Smaller)
  <2>1. \E i \in 1 .. Len(s) : s[i] = r.min
    <3>1. CASE r.min = Huge
      <4>1. 1 \in 1 .. Len(s)
        BY <1>1, <1>3
      <4>2. r.min <= s[1] /\ s[1] <= Huge /\ s[1] \in Int
        BY <1>1, <4>1 DEF Extremes
      <4>. QED
        BY <1>2, <3>1, <4>1, <4>2
    <3>. QED
      BY <3>1 DEF Extremes
  <2>2. \A i \in 1 .. Len(s) : ~ (s[i] < r.min)
    BY <1>1, <1>2 DEF Extremes
  <2>. QED
    BY <1>1, <2>1, <2>2 DEF IsBest, Smaller
<1>4. ASSUME NEW k \in 1 .. Len(s), s[k] > 0 PROVE IsBest(r.max, s, Greater)
  <2>1. \E i \in 1 .. Len(s) : s[i] = r.max
    <3>1. CASE r.max = Tiny
      <4>1. s[k] \in Int /\ s[k] <= r.max
        BY <1>1 DEF Extremes
      <4>2. s[k] = r.max
        BY <1>4, <3>1, <4>1 DEF Tiny
      <4>. QED
        BY <4>2
    <3>. QED
      BY <3>1 DEF Extremes
  <2>2. \A i \in 1 .. Len(s) : ~ (s[i] > r.max)
    BY <1>1, <1>2 DEF Extremes
  <2>. QED
    BY <1>1, <2>1, <2>2 DEF IsBest, Greater
<1>. QED
  BY <1>3, <1>4

LEMMA NothingSumsUp == SumsUp(<< >>, Reset)
<1>1. Squares(<< >>) = << >>
  BY DEF Squares
<1>2. Len(<< >>) = 0
  BY EmptySeq
<1>3. Scale \in Nat
  BY MetricsAssumption
<1>4. Extremes(<< >>, Reset)
  BY <1>2 DEF Extremes, Reset
<1>. QED
  BY <1>1, <1>2, <1>3, <1>4, TotalOfNone DEF SumsUp, Reset

\* The lemma of a step: a tracker that sums up the values so far sums up those
\* and the next one, as long as the divisions are exact.
LEMMA RecordSumsUp ==
  ASSUME NEW s \in Seq(Int), NEW r \in Tracker, SumsUp(s, r), NEW v \in Int,
         v <= Huge, r.count < MaxMessages
  PROVE  SumsUp(Append(s, v), RecordValue(r, v))
<1>. DEFINE n == Len(s)
            next == Append(s, v)
            T == Total(s)
            Q == Total(Squares(s))
            delta == Scale * v - r.mean
            mean == r.mean + delta \div (n + 1)
            m2 == r.m2 + (delta * (Scale * v - mean)) \div Scale
<1>1. /\ n \in Nat /\ r.count = n /\ Len(next) = n + 1
      /\ T \in Int /\ Total(next) = T + v
  BY LenProperties, AppendProperties, TotalOfAppend DEF SumsUp
<1>2. Q \in Int /\ Total(Squares(next)) = Q + v * v
  <2>1. Squares(s) \in Seq(Int) /\ Squares(next) = Append(Squares(s), v * v) /\ v * v \in Int
    BY SquaresOfAppend
  <2>. QED
    BY <2>1, TotalOfAppend
<1>3. /\ r.total = T /\ n * r.mean = Scale * T /\ n * r.m2 = Scale * (n * Q - T * T)
      /\ r.mean \in Int /\ r.m2 \in Int
      /\ n = 0 => T = 0 /\ Q = 0 /\ r.mean = 0 /\ r.m2 = 0
  <2>1. r.mean \in Int /\ r.m2 \in Int
    BY DEF Tracker
  <2>2. ASSUME n = 0 PROVE T = 0 /\ Q = 0
    <3>1. s = << >>
      BY <2>2, EmptySeq
    <3>2. Squares(s) = << >>
      BY <3>1 DEF Squares
    <3>. QED
      BY <3>1, <3>2, TotalOfNone
  <2>. QED
    BY <2>1, <2>2 DEF SumsUp
<1>4. Scale \in Nat \ {0} /\ MaxMessages \in Nat
  BY MetricsAssumption
<1>5. RecordValue(r, v) =
        [count |-> n + 1, total |-> T + v, mean |-> mean, m2 |-> m2,
         max |-> Greatest(r.max, v), min |-> Least(r.min, v)]
  BY <1>1, <1>3 DEF RecordValue
<1>. HIDE DEF n, next, T, Q
<1>6. Means(n + 1, Scale, T + v, Q + v * v, mean, m2)
  <2>1. CASE n > 0
    <3>1. n \in Nat \ {0} /\ n \in 1 .. MaxMessages - 1
      BY <1>1, <1>4, <2>1
    <3>2. n * (n + 1) \in Nat \ {0}
      BY <3>1
    <3>3. Scale % (n * (n + 1)) = 0
      BY <3>1, ScaleAssumption
    <3>4. Exact(n, Scale)
      BY <1>4, <3>2, <3>3, Modulo DEF Exact
    <3>5. Means(n, Scale, T, Q, r.mean, r.m2)
      BY <1>3 DEF Means
    <3>. QED
      BY <1>1, <1>2, <1>3, <1>4, <3>1, <3>4, <3>5, Welford
  <2>2. CASE n = 0
    <3>1. T = 0 /\ Q = 0 /\ r.mean = 0 /\ r.m2 = 0 /\ Scale * v \in Int
      BY <1>3, <1>4, <2>2
    <3>2. delta = Scale * v /\ delta \div (n + 1) = Scale * v
      BY <2>2, <3>1
    <3>3. mean = Scale * v
      BY <3>1, <3>2
    <3>4. delta * (Scale * v - mean) = 0
      BY <3>1, <3>2, <3>3
    <3>5. m2 = 0
      BY <1>4, <3>1, <3>4
    <3>. HIDE DEF delta, mean, m2
    <3>. QED
      BY <1>4, <2>2, <3>1, <3>3, <3>5 DEF Means
  <2>. QED
    BY <1>1, <2>1, <2>2
<1>. HIDE DEF delta, mean, m2
<1>7. n + 1 # 0
  BY <1>1
<1>. QED
  <2>1. /\ RecordValue(r, v).count = n + 1 /\ RecordValue(r, v).total = T + v
        /\ RecordValue(r, v).mean = mean /\ RecordValue(r, v).m2 = m2
    BY <1>5
  <2>2. Extremes(next, RecordValue(r, v))
    BY ExtremesOfAppend DEF SumsUp, next
  <2>3. SumsUp(next, RecordValue(r, v))
    BY <1>1, <1>2, <1>3, <1>6, <1>7, <2>1, <2>2 DEF SumsUp, Means
  <2>. QED
    BY <2>3 DEF next

\* The value of the message under way is still to be recorded in tracker t.
Pending(t) ==
  IF \/ doing["recorder"] = "measured"
     \/ doing["recorder"] = "record" /\ step["recorder"] <= t
  THEN 1 ELSE 0

\* No tracker is given more values than messages come.
Bounded ==
  /\ recorded[Time] + Pending(Time) <= MaxMessages
  /\ \A t \in Trackers : recorded[t] + Pending(t) <= recorded[Time] + Pending(Time)

SumsInv ==
  /\ log \in [Trackers -> Seq(Int)]
  /\ \A t \in Trackers : SumsUp(log[t], tracked[t])
  /\ Bounded

LEMMA PendingType == \A t : Pending(t) \in {0, 1}
  BY DEF Pending

LEMMA SumsInit == Init => SumsInv
<1>. SUFFICES ASSUME Init PROVE SumsInv
  OBVIOUS
<1>1. /\ tracked = [t \in Trackers |-> Reset] /\ log = [t \in Trackers |-> << >>]
      /\ recorded = [t \in Trackers |-> 0] /\ doing["recorder"] = "idle"
  BY DEF Init, Threads
<1>2. log \in [Trackers -> Seq(Int)]
  BY <1>1, EmptySeq
<1>3. \A t \in Trackers : SumsUp(log[t], tracked[t])
  BY <1>1, NothingSumsUp
<1>4. \A t \in Trackers : recorded[t] = 0 /\ Pending(t) = 0
  BY <1>1 DEF Pending
<1>5. MaxMessages \in Nat
  BY MetricsAssumption
<1>. QED
  BY <1>2, <1>3, <1>4, <1>5, TrackerSteps DEF SumsInv, Bounded

\* A step that gives no tracker a value.
LEMMA SumsSame ==
  ASSUME SumsInv, UNCHANGED <<log, tracked, recorded>>,
         \A t \in Trackers : Pending(t)' = Pending(t)
  PROVE  SumsInv'
<1>1. Bounded'
  BY TrackerSteps DEF SumsInv, Bounded
<1>. QED
  BY <1>1 DEF SumsInv

LEMMA SumsRecordOne ==
  ASSUME Inv, SumsInv, RecordOne
  PROVE  SumsInv'
<1>. DEFINE u == step["recorder"]
            v == sample.value[u]
            used == u # Dt \/ ~sample.first
<1>1. /\ doing["recorder"] = "record" /\ u \in Trackers /\ doing' = doing
      /\ step' = [step EXCEPT !["recorder"] = u + 1]
      /\ tracked' = IF used THEN [tracked EXCEPT ![u] = RecordValue(@, v)] ELSE tracked
      /\ log' = IF used THEN [log EXCEPT ![u] = Append(@, v)] ELSE log
      /\ recorded' = IF used THEN [recorded EXCEPT ![u] = @ + 1] ELSE recorded
  BY DEF RecordOne, AtTracker
<1>2. /\ step'["recorder"] = u + 1 /\ v \in Int
      /\ tracked \in [Trackers -> Tracker] /\ recorded \in [Trackers -> Nat]
      /\ log \in [Trackers -> Seq(Int)]
      /\ v <= Huge
      /\ \A t \in Trackers : reported[t] \in Nat /\ dropped[t] \in Nat /\ t \in Int
  BY <1>1, Counts, TrackerSteps DEF Inv, TypeInv, TypeOK, SampleInRange, Threads, SumsInv
<1>3. tracked[u].count < MaxMessages
  <2>1. Held(doing, mtx)
    BY DEF Inv, MutexHeld
  <2>2. ~AheadOf(doing, step, u, "publish")
    BY <1>1, <2>1, WhenRecording
  <2>3. recorded[u] = reported[u] + dropped[u] + tracked[u].count
    BY <1>1, <2>2, LostLemma DEF Inv
  <2>4. Pending(u) = 1
    BY <1>1, <1>2 DEF Pending
  <2>5. recorded[u] + 1 <= recorded[Time] + Pending(Time)
        /\ recorded[Time] + Pending(Time) <= MaxMessages
    BY <1>1, <2>4 DEF SumsInv, Bounded
  <2>6. tracked[u].count \in Nat /\ MaxMessages \in Nat /\ recorded[Time] \in Nat
    BY <1>1, <1>2, MetricsAssumption, TrackerSteps DEF Tracker
  <2>7. reported[u] \in Nat /\ dropped[u] \in Nat /\ Pending(Time) \in {0, 1}
    BY <1>1, <1>2, PendingType
  <2>. HIDE DEF u
  <2>. QED
    BY <2>3, <2>5, <2>6, <2>7
<1>. HIDE DEF u, v, used
<1>4. \A t \in Trackers : SumsUp(log'[t], tracked'[t])
  <2>. TAKE t \in Trackers
  <2>1. CASE t = u /\ used
    <3>1. log'[t] = Append(log[u], v) /\ tracked'[t] = RecordValue(tracked[u], v)
      BY <1>1, <1>2, <2>1
    <3>2. SumsUp(log[u], tracked[u]) /\ log[u] \in Seq(Int) /\ tracked[u] \in Tracker
      BY <1>1, <1>2 DEF SumsInv
    <3>3. SumsUp(Append(log[u], v), RecordValue(tracked[u], v))
      BY <1>2, <1>3, <3>2, RecordSumsUp
    <3>. QED
      BY <3>1, <3>3
  <2>2. CASE ~(t = u /\ used)
    <3>1. log'[t] = log[t] /\ tracked'[t] = tracked[t]
      BY <1>1, <1>2, <2>2
    <3>. QED
      BY <3>1 DEF SumsInv
  <2>. QED
    BY <2>1, <2>2
<1>5. log' \in [Trackers -> Seq(Int)]
  <2>1. Append(log[u], v) \in Seq(Int)
    BY <1>1, <1>2, AppendProperties
  <2>. QED
    BY <1>1, <1>2, <2>1
<1>6. \A t \in Trackers :
        Pending(t) = (IF u <= t THEN 1 ELSE 0) /\ Pending(t)' = (IF u + 1 <= t THEN 1 ELSE 0)
  BY <1>1, <1>2 DEF Pending, u
<1>7. \A t \in Trackers : /\ recorded'[t] \in Nat
                          /\ t # u => recorded'[t] = recorded[t]
                          /\ t = u => recorded'[t] = IF used THEN recorded[t] + 1 ELSE recorded[t]
                          /\ t = Time => used \/ t # u
  <2>1. Time # Dt
    BY DEF Time, Dt
  <2>. QED
    BY <1>1, <1>2, <2>1 DEF used
<1>8. \A t \in Trackers : recorded'[t] + Pending(t)' <= recorded[t] + Pending(t)
  <2>. TAKE t \in Trackers
  <2>1. CASE t = u
    BY <1>1, <1>2, <1>6, <1>7, <2>1
  <2>2. CASE t # u
    <3>1. u <= t <=> u + 1 <= t
      BY <1>1, <1>2, <2>2
    <3>. QED
      BY <1>2, <1>6, <1>7, <2>2, <3>1
  <2>. QED
    BY <2>1, <2>2
<1>9. recorded'[Time] + Pending(Time)' = recorded[Time] + Pending(Time)
  <2>1. CASE Time = u
    <3>1. recorded'[Time] = recorded[Time] + 1 /\ Pending(Time) = 1 /\ Pending(Time)' = 0
      BY <1>2, <1>6, <1>7, <2>1, TrackerSteps
    <3>. QED
      BY <1>2, <3>1, TrackerSteps
  <2>2. CASE Time # u
    <3>1. u <= Time <=> u + 1 <= Time
      BY <1>1, <1>2, <2>2, TrackerSteps
    <3>. QED
      BY <1>6, <1>7, <2>2, <3>1, TrackerSteps
  <2>. QED
    BY <2>1, <2>2
<1>10. Bounded'
  <2>1. ASSUME NEW t \in Trackers
        PROVE  recorded'[t] + Pending(t)' <= recorded'[Time] + Pending(Time)'
    <3>1. /\ recorded[t] + Pending(t) <= recorded[Time] + Pending(Time)
          /\ recorded'[t] + Pending(t)' <= recorded[t] + Pending(t)
      BY <1>8 DEF SumsInv, Bounded
    <3>2. Pending(t)' \in {0, 1} /\ Pending(t) \in {0, 1} /\ Pending(Time) \in {0, 1}
      BY DEF Pending
    <3>3. recorded'[t] \in Nat /\ recorded[t] \in Nat /\ recorded[Time] \in Nat
      BY <1>2, <1>7, TrackerSteps
    <3>. QED
      BY <1>9, <3>1, <3>2, <3>3
  <2>2. recorded'[Time] + Pending(Time)' <= MaxMessages
    BY <1>9 DEF SumsInv, Bounded
  <2>. QED
    BY <2>1, <2>2 DEF Bounded
<1>. QED
  BY <1>4, <1>5, <1>10 DEF SumsInv

LEMMA SumsResetOne ==
  ASSUME Inv, SumsInv, NEW th \in Threads, ResetOne(th)
  PROVE  SumsInv'
<1>. DEFINE u == step[th]
<1>1. /\ doing[th] \in {"publish", "reset"} /\ u \in Trackers /\ doing' = doing
      /\ step' = [step EXCEPT ![th] = u + 1]
      /\ tracked' = [tracked EXCEPT ![u] = Reset]
      /\ log' = [log EXCEPT ![u] = << >>]
      /\ recorded' = recorded
  BY DEF ResetOne, ResetTracker, AtTracker
<1>2. tracked \in [Trackers -> Tracker] /\ log \in [Trackers -> Seq(Int)]
  BY DEF Inv, TypeInv, TypeOK, SumsInv
<1>. HIDE DEF u
<1>3. \A t \in Trackers : SumsUp(log'[t], tracked'[t])
  <2>. TAKE t \in Trackers
  <2>1. CASE t = u
    <3>1. log'[t] = << >> /\ tracked'[t] = Reset
      BY <1>1, <1>2, <2>1
    <3>. QED
      BY <3>1, NothingSumsUp
  <2>2. CASE t # u
    <3>1. log'[t] = log[t] /\ tracked'[t] = tracked[t]
      BY <1>1, <1>2, <2>2
    <3>. QED
      BY <3>1 DEF SumsInv
  <2>. QED
    BY <2>1, <2>2
<1>4. log' \in [Trackers -> Seq(Int)]
  BY <1>1, <1>2, EmptySeq
<1>5. \A t : Pending(t)' = Pending(t)
  <2>1. doing["recorder"] = "record" => step'["recorder"] = step["recorder"]
    BY <1>1 DEF Inv, TypeInv, TypeOK, Threads
  <2>. QED
    BY <1>1, <2>1 DEF Pending
<1>6. Bounded'
  BY <1>1, <1>5, TrackerSteps DEF SumsInv, Bounded
<1>. QED
  BY <1>3, <1>4, <1>6 DEF SumsInv

LEMMA SumsReceive ==
  ASSUME Inv, SumsInv,
         NEW s \in Sources, NEW index \in 0 .. MaxIndex, NEW values \in Samples,
         Receive(s, index, values)
  PROVE  SumsInv'
<1>1. /\ doing["recorder"] = "idle" /\ doing'["recorder"] = "measured"
      /\ recorded[Time] < MaxMessages
      /\ UNCHANGED <<log, tracked, recorded>>
  BY DEF Receive, Goes, publisher, Inv, TypeInv, TypeOK, Threads
<1>2. \A t : Pending(t) = 0 /\ Pending(t)' = 1
  BY <1>1 DEF Pending
<1>3. \A t \in Trackers : recorded[t] \in Nat
  BY Counts DEF Inv, TypeInv
<1>4. Bounded'
  <2>1. MaxMessages \in Nat
    BY MetricsAssumption
  <2>. QED
    BY <1>1, <1>2, <1>3, <2>1, TrackerSteps DEF SumsInv, Bounded
<1>. QED
  BY <1>1, <1>4 DEF SumsInv

LEMMA SumsStep ==
  ASSUME Inv, SumsInv, [Next]_vars
  PROVE  SumsInv'
<1>. USE DEF Threads
<1>1. /\ doing \in [Threads -> {"idle", "measured", "record", "due", "publish", "reset"}]
      /\ step \in [Threads -> Time .. Missed + 1]
  BY DEF Inv, TypeInv, TypeOK
<1>2. CASE RecordBegins
  <2>1. /\ doing["recorder"] = "measured" /\ doing'["recorder"] = "record"
        /\ step'["recorder"] = Time /\ UNCHANGED <<log, tracked, recorded>>
    BY <1>1, <1>2 DEF RecordBegins, Goes, AtTracker
  <2>2. \A t \in Trackers : Pending(t)' = Pending(t)
    BY <2>1 DEF Pending, Trackers, Time, Missed
  <2>. QED
    BY <2>1, <2>2, SumsSame
<1>3. ASSUME NEW due \in BOOLEAN, RecordEnds(due) PROVE SumsInv'
  <2>1. /\ doing["recorder"] = "record" /\ doing'["recorder"] \in {"due", "idle"}
        /\ step["recorder"] > Missed /\ step["recorder"] \in Int
        /\ UNCHANGED <<log, tracked, recorded>>
    BY <1>1, <1>3 DEF RecordEnds, Goes, Time, Missed
  <2>2. \A t \in Trackers : Pending(t)' = Pending(t)
    BY <2>1 DEF Pending, Trackers, Time, Missed
  <2>. QED
    BY <2>1, <2>2, SumsSame
<1>4. ASSUME UNCHANGED <<log, tracked, recorded>>,
             \/ doing'["recorder"] = doing["recorder"] /\ step'["recorder"] = step["recorder"]
             \/ /\ doing["recorder"] \in {"due", "publish"}
                /\ doing'["recorder"] \in {"publish", "idle"}
      PROVE  SumsInv'
  <2>1. \A t \in Trackers : Pending(t)' = Pending(t)
    BY <1>4 DEF Pending
  <2>. QED
    BY <1>4, <2>1, SumsSame
<1>5. ASSUME NEW th \in {"trigger", "recorder"}, PublishBegins(th) PROVE SumsInv'
  <2>1. /\ UNCHANGED <<log, tracked, recorded>>
        /\ doing' = [doing EXCEPT ![th] = "publish"]
        /\ th = "recorder" => doing["recorder"] = "due"
        /\ step' = [step EXCEPT ![th] = Time]
    BY <1>5 DEF PublishBegins, Goes, AtTracker
  <2>. QED
    BY <1>1, <1>4, <2>1
<1>6. ASSUME NEW th \in {"trigger", "recorder"}, PublishEnds(th) PROVE SumsInv'
  <2>1. /\ UNCHANGED <<log, tracked, recorded>> /\ step' = step
        /\ doing[th] = "publish" /\ doing' = [doing EXCEPT ![th] = "idle"]
    BY <1>6 DEF PublishEnds, Goes
  <2>. QED
    BY <1>1, <1>4, <2>1
<1>7. CASE ResetBegins \/ ResetEnds
  <2>1. /\ UNCHANGED <<log, tracked, recorded>>
        /\ doing'["recorder"] = doing["recorder"] /\ step'["recorder"] = step["recorder"]
    BY <1>1, <1>7 DEF ResetBegins, ResetEnds, Goes, AtTracker, publisher
  <2>. QED
    BY <1>4, <2>1
<1>8. CASE UNCHANGED vars
  BY <1>4, <1>8 DEF vars, publisher
<1>. QED
  BY <1>2, <1>3, <1>5, <1>6, <1>7, <1>8, SumsReceive, SumsRecordOne, SumsResetOne
     DEF Next, Recording, Publishing, Resetting

\* Each tracker holds the number, the sum, the mean, the spread and the minimum of
\* the values recorded since its last reset, and the maximum of them if one is
\* positive, for any measurements and any number of messages for which the
\* divisions are exact.
THEOREM TracksAll == Spec => []TracksSamples
<1>1. ASSUME Inv, SumsInv PROVE TracksSamples
  <2>1. ASSUME NEW t \in Trackers
        PROVE  /\ SumsUp(log[t], tracked[t])
               /\ Len(log[t]) > 0 => IsBest(tracked[t].min, log[t], Smaller)
               /\ (\E i \in 1 .. Len(log[t]) : log[t][i] > 0)
                    => IsBest(tracked[t].max, log[t], Greater)
    <3>1. log[t] \in Seq(Int) /\ tracked[t] \in Tracker /\ SumsUp(log[t], tracked[t])
      BY <1>1 DEF SumsInv, Inv, TypeInv, TypeOK
    <3>2. Extremes(log[t], tracked[t])
      BY <3>1 DEF SumsUp
    <3>. QED
      BY <3>1, <3>2, ExtremesAreBest
  <2>. QED
    BY <2>1, Zenon DEF SumsUp, TracksSamples
<1>. QED
  BY <1>1, SumsInit, SumsStep, InvCorrect, PTL DEF Spec

=============================================================================
