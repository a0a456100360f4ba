------------------------------ MODULE DataFile ------------------------------
(***************************************************************************)
(* UniversalDataSaver and UniversalDataPlayer: what is in the files, and   *)
(* what the player makes of it.                                            *)
(*                                                                         *)
(* A record is the 4 bytes of a size and the bytes of a message.  A file   *)
(* is a sequence of units: two for a size, one or more for a message, so   *)
(* that a file may end anywhere in a record.  The saver's stream hands its *)
(* buffer to the file when it likes, and a crash loses the rest of it.     *)
(* Several threads make the saver record; one thread, the program, opens,  *)
(* starts and stops the player.  A file is not written while it is played. *)
(***************************************************************************)
EXTENDS Naturals, Sequences, FiniteSetsExt

CONSTANTS
  Threads,         \* the threads that send messages to the saver
  Messages,        \* the messages
  Size,            \* Size[m]: the units of message m
  Files,           \* the paths
  NoFile,          \* no stream is open
  NoMessage,       \* the thread is not in receive
  Garbled,         \* what the player makes of bytes that are not a record
  MaxUnits         \* bound: the units of all files

SizeUnits == 2     \* the units of a size

ASSUME DataFileAssumption ==
  /\ Size \in [Messages -> Nat \ {0}]
  /\ NoFile \notin Files
  /\ NoMessage \notin Messages
  /\ Garbled \notin Messages
  /\ MaxUnits \in Nat

VARIABLES
  disk,            \* disk[f]: what is in file f
  path,            \* file_path while output_file_stream is open
  buffer,          \* what the stream has not handed to the file yet
  receiving,       \* receiving[t]: the message thread t is recording
  next,            \* next[t]: the statement of receive that t executes next
  tears,           \* history: the places of a file at which a crash left a part of a record
  reader,          \* the player
  played           \* history: the last message the player signalled, and its place

saver == <<path, buffer, receiving, next>>
player == <<reader, played>>
vars == <<disk, saver, tears, player>>

Unit == [of : Messages, at : Nat \ {0}]

Length(m) == SizeUnits + Size[m]

\* the units from..to of the record of m
Part(m, from, to) == [i \in 1..(to + 1 - from) |-> [of |-> m, at |-> from + i - 1]]

Record(m) == Part(m, 1, Length(m))

\* What file f holds once the buffer is handed over.
Content(f) == IF f = path THEN disk[f] \o buffer ELSE disk[f]

NoPlayer == [file |-> NoFile, forever |-> FALSE, pos |-> 0, eof |-> FALSE,
             fail |-> FALSE, running |-> FALSE, stop |-> FALSE, asked |-> FALSE]

Nothing == [from |-> 0, to |-> 0, message |-> NoMessage]

Init ==
  /\ disk = [f \in Files |-> <<>>]
  /\ path = NoFile
  /\ buffer = <<>>
  /\ receiving = [t \in Threads |-> NoMessage]
  /\ next = [t \in Threads |-> "idle"]
  /\ tears = [f \in Files |-> {}]
  /\ reader = NoPlayer
  /\ played = Nothing

-----------------------------------------------------------------------------
(* UniversalDataSaver.                                                     *)

\* Faulty MayLock: receive does not take the mutex.
MayAlwaysLock == TRUE

\* nobody holds mtx
MayLock == \A t \in Threads : next[t] = "idle"

\* open_file_stream: without ios::app the file is truncated.
Opened(d, f, append) == IF append THEN d ELSE [d EXCEPT ![f] = <<>>]

\* the stream of the saver is closed: what is in the buffer goes to the file
Closed == IF path = NoFile THEN disk ELSE [disk EXCEPT ![path] = @ \o buffer]

\* the stream opens f, which holds what d says, and nobody plays it
OpenTo(d, f, append) ==
  /\ f # reader.file
  /\ disk' = Opened(d, f, append)
  /\ tears' = IF append THEN tears ELSE [tears EXCEPT ![f] = {}]
  /\ path' = f
  /\ buffer' = <<>>
  /\ UNCHANGED <<receiving, next, player>>

Open(f, append) == path = NoFile /\ OpenTo(disk, f, append)

SetFilePath(f, append) == path # NoFile /\ MayLock /\ OpenTo(Closed, f, append)

\* The destructor: flush and close, once nobody is in receive.
Close ==
  /\ path # NoFile /\ MayLock
  /\ disk' = Closed
  /\ path' = NoFile
  /\ buffer' = <<>>
  /\ UNCHANGED <<receiving, next, tears, player>>

\* The stream hands over the first k units: flush does, and so does a write
\* that finds the buffer full.
Flush(k) ==
  /\ path # NoFile
  /\ disk' = [disk EXCEPT ![path] = @ \o SubSeq(buffer, 1, k)]
  /\ buffer' = SubSeq(buffer, k + 1, Len(buffer))
  /\ UNCHANGED <<path, receiving, next, tears, player>>

\* bound
Fits(m) == MapThenSumSet(LAMBDA f : Len(Content(f)), Files) + Length(m) <= MaxUnits

\* receive (record_message is the same): lock mtx.
Receive(t, m) ==
  /\ path # NoFile
  /\ next[t] = "idle" /\ MayLock
  /\ Fits(m)
  /\ receiving' = [receiving EXCEPT ![t] = m]
  /\ next' = [next EXCEPT ![t] = "size"]
  /\ UNCHANGED <<disk, path, buffer, tears, player>>

Write(t, at, part, then) ==
  /\ next[t] = at
  /\ buffer' = buffer \o part
  /\ next' = [next EXCEPT ![t] = then]
  /\ UNCHANGED <<disk, path, receiving, tears, player>>

WriteSize(t) == Write(t, "size", Part(receiving[t], 1, SizeUnits), "data")

WriteData(t) ==
  Write(t, "data", Part(receiving[t], SizeUnits + 1, Length(receiving[t])), "signal")

\* signal(m), still under mtx, and the return.
SignalOn(t) ==
  /\ next[t] = "signal"
  /\ receiving' = [receiving EXCEPT ![t] = NoMessage]
  /\ next' = [next EXCEPT ![t] = "idle"]
  /\ UNCHANGED <<disk, path, buffer, tears, player>>

\* the last unit of s is not the last one of its record
Torn(s) == s # <<>> /\ s[Len(s)].at < Length(s[Len(s)].of)

\* The process dies, and the buffer with it.
Dies ==
  /\ tears' = IF path # NoFile /\ Torn(disk[path])
              THEN [tears EXCEPT ![path] = @ \cup {Len(disk[path])}]
              ELSE tears
  /\ path' = NoFile
  /\ buffer' = <<>>
  /\ receiving' = [t \in Threads |-> NoMessage]
  /\ next' = [t \in Threads |-> "idle"]
  /\ reader' = NoPlayer
  /\ played' = Nothing
  /\ UNCHANGED disk

Crash == path # NoFile /\ Dies

-----------------------------------------------------------------------------
(* UniversalDataPlayer.                                                    *)

File(r) == IF r.file = NoFile THEN <<>> ELSE disk[r.file]

\* the n units after place pos, or as many as there are
Units(f, pos, n) == SubSeq(f, pos + 1, IF pos + n > Len(f) THEN Len(f) ELSE pos + n)

\* the sizes that the units after pos may be taken for
SizesAt(f, pos) ==
  LET real == {m \in Messages : Units(f, pos, SizeUnits) = Part(m, 1, SizeUnits)}
  IN  IF real # {} THEN {Size[m] : m \in real} ELSE 0..MaxUnits

\* what the size and the buffer of that size at pos are taken for
MessageAt(f, pos, size) ==
  LET real == {m \in Messages : Units(f, pos, SizeUnits + size) = Record(m)}
  IN  IF real # {} THEN CHOOSE m \in real : TRUE ELSE Garbled

\* read_and_signal: read a size, read that many bytes, signal what came.  A
\* read beyond the end leaves the rest of the bytes as they were, and the
\* stream with eofbit and failbit.  What came is signalled even if it is garbled:
\* here that goes well, see DiesOfGarbage.
ReadAndSignal(r) ==
  LET f == File(r) IN
  \E size \in SizesAt(f, r.pos) :
    LET end == r.pos + SizeUnits + size
        beyond == end > Len(f)
        to == IF beyond THEN Len(f) ELSE end
    IN /\ reader' = [r EXCEPT !.pos = to, !.eof = beyond, !.fail = beyond]
       /\ played' = [from |-> r.pos, to |-> to, message |-> MessageAt(f, r.pos, size)]

\* Faulty AtEnd: the record of a message of one unit is left at the end.
NearEnd(r) == r.eof \/ r.pos + SizeUnits + 1 >= Len(File(r))

\* peek() == EOF
AtEnd(r) == r.eof \/ r.pos = Len(File(r))

\* the stream after such a peek: at the end it sets eofbit, and failbit if that
\* was set already
Peeked(r) == IF AtEnd(r) THEN [r EXCEPT !.eof = TRUE, !.fail = r.eof] ELSE r

\* clear and seekg(0)
Rewound(r) == [r EXCEPT !.pos = 0, !.eof = FALSE, !.fail = FALSE]

\* Faulty Started: start goes back to the beginning of the file.
StartedAnew(r) == [Rewound(r) EXCEPT !.running = TRUE, !.stop = FALSE, !.asked = FALSE]

\* start, or stop and start: the stream stays where it is.
Started(r) == [r EXCEPT !.running = TRUE, !.stop = FALSE, !.asked = FALSE]

SameFiles == UNCHANGED <<disk, saver, tears>>

OpenPlayer(f, forever) ==
  /\ reader = NoPlayer /\ f # path
  /\ reader' = [NoPlayer EXCEPT !.file = f, !.forever = forever]
  /\ UNCHANGED played /\ SameFiles

ClosePlayer ==
  /\ reader # NoPlayer /\ ~reader.running
  /\ reader' = NoPlayer
  /\ played' = Nothing
  /\ SameFiles

Start ==
  /\ reader # NoPlayer /\ ~reader.running
  /\ reader' = Started(reader)
  /\ UNCHANGED played /\ SameFiles

RequestStop ==
  /\ reader.running
  /\ reader' = [reader EXCEPT !.stop = TRUE, !.asked = TRUE]
  /\ UNCHANGED played /\ SameFiles

\* Faulty PlayOn: the end is seen only by a read beyond it.
PlayToEof(r) == ~r.stop /\ ~r.fail /\ ~r.eof

\* child_thread_fn goes round its inner loop
PlayOn(r) == ~r.stop /\ ~r.fail /\ ~AtEnd(r)

PlayNext ==
  /\ reader.running /\ PlayOn(reader)
  /\ ReadAndSignal(reader)
  /\ SameFiles

\* The inner loop is over: begin again or request_stop, and leave the outer
\* loop if a stop is requested.
RunOut ==
  /\ reader.running /\ ~PlayOn(reader)
  /\ LET r == IF reader.stop \/ reader.fail THEN reader ELSE Peeked(reader)
         s == IF r.forever THEN Rewound(r) ELSE [r EXCEPT !.stop = TRUE]
     IN  reader' = [s EXCEPT !.running = ~s.stop]
  /\ UNCHANGED played /\ SameFiles

\* produce, called by the program; produce_all_once calls it until it is false.
Produce ==
  /\ reader # NoPlayer /\ ~reader.running /\ ~reader.fail
  /\ LET r == Peeked(reader) IN
       CASE ~AtEnd(reader) -> ReadAndSignal(r)
         [] AtEnd(reader) /\ reader.forever -> ReadAndSignal(Rewound(r))
         [] OTHER -> reader' = r /\ UNCHANGED played
  /\ SameFiles

\* what read_and_signal makes of the place of r may be garbled
ReadsGarbage(r) ==
  \E size \in SizesAt(File(r), r.pos) : MessageAt(File(r), r.pos, size) = Garbled

\* A message that is garbled is signalled, and the node writes its name and a
\* counter where the bytes say they belong: undefined behaviour.  It may go
\* well (ReadAndSignal), or the process dies, as it does if there is no memory for
\* a garbled size.
DiesOfGarbage ==
  /\ \/ reader.running /\ PlayOn(reader) /\ ReadsGarbage(reader)
     \/ /\ reader # NoPlayer /\ ~reader.running /\ ~reader.fail
        /\ \/ ~AtEnd(reader) /\ ReadsGarbage(reader)
           \/ AtEnd(reader) /\ reader.forever /\ ReadsGarbage(Rewound(reader))
  /\ Dies

-----------------------------------------------------------------------------
Recording(t) == WriteSize(t) \/ WriteData(t) \/ SignalOn(t)

Playing == PlayNext \/ RunOut

Next ==
  \/ \E f \in Files, append \in BOOLEAN : Open(f, append) \/ SetFilePath(f, append)
  \/ \E k \in 1..Len(buffer) : Flush(k)
  \/ \E t \in Threads : Recording(t) \/ \E m \in Messages : Receive(t, m)
  \/ Close \/ Crash
  \/ \E f \in Files, forever \in BOOLEAN : OpenPlayer(f, forever)
  \/ ClosePlayer \/ Start \/ RequestStop \/ Playing \/ Produce \/ DiesOfGarbage

Spec == Init /\ [][Next]_vars

\* The player's thread goes on as long as it runs.
FairSpec == Spec /\ WF_vars(Playing)

-----------------------------------------------------------------------------
(* Properties.                                                             *)

\* v comes after u, in a record or from one record to the next
Follows(u, v) ==
  IF u.at < Length(u.of) THEN v = [of |-> u.of, at |-> u.at + 1] ELSE v.at = 1

\* c is one whole record after the other, but for the places in torn
Whole(c, torn) ==
  \A i \in 1..Len(c) : IF i = 1 \/ i - 1 \in torn THEN c[i].at = 1 ELSE Follows(c[i - 1], c[i])

\* A file is one whole record after the other, whichever threads record and
\* whenever the path changes, but for the places where a crash cut a record off:
\* there the next record begins in the middle (receive, set_file_path).
WholeRecords == \A f \in Files : Whole(Content(f), tears[f])

\* Up to the place where a crash cut a record off the player signals exactly the
\* messages that were saved, each from the first to the last of its bytes
\* (read_and_signal).  A file without a record is the exception: produce of a
\* player that repeats reads beyond its end.
PlaysIntact ==
  ( /\ played # Nothing
    /\ Len(File(reader)) > 0
    /\ reader.file # NoFile => \A i \in tears[reader.file] : played.to < i)
    => /\ played.message \in Messages
       /\ SubSeq(File(reader), played.from + 1, played.to) = Record(played.message)

\* The player skips no record and repeats none, also when it is stopped and
\* started again: only one that repeats goes back, and to the first record
\* (child_thread_fn, produce).
SkipsNothing ==
  [][played' \notin {played, Nothing} =>
       \/ played'.from = played.to
       \/ played'.from = 0 /\ reader.forever]_vars

\* A player that does not repeat plays a file that no crash has torn to the end,
\* unless it is stopped or the process dies, and its thread ends: a last read that
\* comes to the end of the file is not one beyond it, and the next one is not tried
\* (child_thread_fn).
PlaysToTheEnd ==
  (reader.running /\ ~reader.forever /\ tears[reader.file] = {})
    ~> (~reader.running /\ (reader.asked \/ reader.pos = Len(File(reader))))

\* "plays what UniversalDataSaver writes": every message signalled is one that was
\* saved, as long as there is anything in the file.  The code breaks it: the rest of
\* a torn record, and what follows a tear, is signalled as if it were a message
\* (read_and_signal).
PlaysWhatIsSaved ==
  played # Nothing /\ Len(File(reader)) > 0 => played.message \in Messages

=============================================================================
