----------------------------- MODULE MemoryLog -----------------------------
(***************************************************************************)
(* The log of the last operation, kept in memory, and a client that        *)
(* watches it.                                                             *)
(*                                                                         *)
(* The buffer drops its oldest records when they take too much room and    *)
(* all of them when a new operation starts.  The watcher polls the buffer  *)
(* over HTTP and prints what is new since the last answer, which it finds  *)
(* by the absolute index of the oldest record held.                        *)
(***************************************************************************)
EXTENDS Integers, Sequences

CONSTANTS
  Message,      \* records that differ in level, message or data
  Size,         \* LogRecord::size of each
  Bound,        \* MAX_RECORDED_BYTES
  MaxInserted,  \* bound of the model: how many records are ever inserted
  MaxCount      \* bound of the model: how often one is repeated

ASSUME LogAssumption == /\ Size \in [Message -> Nat \ {0}]
                        /\ Bound \in Nat
                        /\ MaxInserted \in Nat
                        /\ MaxCount \in Nat \ {0}

VARIABLES
  entries,   \* Records::entries
  bytes,     \* Records::bytes
  inserted,  \* Records::inserted
  logging,   \* MemDrain::logging
  answer,    \* the answer on its way to the watcher, or the one it is done with
  next,      \* the watcher's index of the next entry to print
  printed    \* the indices of the entries it has printed, in order

recordVars == <<entries, bytes, inserted>>
vars == <<recordVars, logging, answer, next, printed>>

\* A slip: the index of the record before the oldest.
FirstIndexOffByOne == inserted - Len(entries) - 1

FirstIndex == inserted - Len(entries)

\* The sizes of the records of s, added up one after the other.
Sums(s) ==
  LET sum[i \in 0..Len(s)] == IF i = 0 THEN 0 ELSE sum[i - 1] + Size[s[i].message]
  IN sum

Total(s) == Sums(s)[Len(s)]

LogRecord == [message : Message, count : 1..MaxCount]

Answer == [first : Nat, len : Nat, pending : BOOLEAN]

TypeOK ==
  /\ entries \in Seq(LogRecord)
  /\ bytes \in Nat
  /\ inserted \in Nat
  /\ logging \in BOOLEAN
  /\ answer \in Answer
  /\ next \in Nat
  /\ printed \in Seq(Nat)

Init ==
  /\ entries = <<>>
  /\ bytes = 0
  /\ inserted = 0
  /\ logging = FALSE
  /\ answer = [first |-> 0, len |-> 0, pending |-> FALSE]
  /\ next = 0
  /\ printed = <<>>

(***************************************************************************)
(* The agent.                                                              *)
(***************************************************************************)

\* A slip: one record makes room for one.
EvictionsOnce(s, b) == IF b > Bound /\ Len(s) > 1 THEN 1 ELSE 0

\* How many of the oldest records go until the rest, of b bytes with them,
\* fits or is the newest alone.
Evictions(s, b) ==
  LET Enough(k) == b - Total(SubSeq(s, 1, k)) <= Bound \/ k = Len(s) - 1
  IN CHOOSE k \in 0..(Len(s) - 1) :
       Enough(k) /\ \A j \in 0..(k - 1) : ~ Enough(j)

Repeats(m) == entries # <<>> /\ entries[Len(entries)].message = m

\* Records::push.
Push(m) ==
  IF Repeats(m)
    THEN /\ entries[Len(entries)].count < MaxCount
         /\ entries' = [entries EXCEPT ![Len(entries)].count = @ + 1]
         /\ UNCHANGED <<bytes, inserted>>
    ELSE LET s == Append(entries, [message |-> m, count |-> 1])
             b == bytes + Size[m]
             k == Evictions(s, b)
         IN /\ inserted < MaxInserted
            /\ entries' = SubSeq(s, k + 1, Len(s))
            /\ bytes' = b - Total(SubSeq(s, 1, k))
            /\ inserted' = inserted + 1

Log(m) ==
  /\ logging
  /\ Push(m)
  /\ UNCHANGED <<logging, answer, next, printed>>

\* record_out_of_scope: logging is set for one record and put back.
RecordOutOfScope(m) ==
  /\ Push(m)
  /\ UNCHANGED <<logging, answer, next, printed>>

\* A slip: with the records, the count of those ever inserted starts anew.
StartLoggingAnew ==
  /\ entries' = <<>>
  /\ bytes' = 0
  /\ inserted' = 0
  /\ logging' = TRUE
  /\ UNCHANGED <<answer, next, printed>>

StartLogging ==
  /\ entries' = <<>>
  /\ bytes' = 0
  /\ logging' = TRUE
  /\ UNCHANGED <<inserted, answer, next, printed>>

StopLogging ==
  /\ logging
  /\ logging' = FALSE
  /\ UNCHANGED <<recordVars, answer, next, printed>>

(***************************************************************************)
(* The watcher: updatehub client log --watch.                              *)
(***************************************************************************)

\* GET /log: the records and the index of the first, read under one lock.
Respond ==
  /\ ~ answer.pending
  /\ answer' = [first |-> FirstIndex, len |-> Len(entries), pending |-> TRUE]
  /\ UNCHANGED <<recordVars, logging, next, printed>>

\* A slip: the watcher prints what it is given.
PrintAll ==
  /\ answer.pending
  /\ printed' = printed \o [i \in 1..answer.len |-> answer.first + i - 1]
  /\ next' = answer.first + answer.len
  /\ answer' = [answer EXCEPT !.pending = FALSE]
  /\ UNCHANGED <<recordVars, logging>>

\* next.max(log.first_index).
FirstNew == IF next > answer.first THEN next ELSE answer.first
NewEntries == [i \in 1..((answer.first + answer.len) - FirstNew) |-> FirstNew + i - 1]

\* The entries from there on are printed.
PrintNew ==
  /\ answer.pending
  /\ printed' = printed \o NewEntries
  /\ next' = answer.first + answer.len
  /\ answer' = [answer EXCEPT !.pending = FALSE]
  /\ UNCHANGED <<recordVars, logging>>

Next ==
  \/ \E m \in Message : Log(m) \/ RecordOutOfScope(m)
  \/ StartLogging \/ StopLogging
  \/ Respond \/ PrintNew

Spec == Init /\ [][Next]_vars

(***************************************************************************)
(* Properties.                                                             *)
(***************************************************************************)

\* The records held fit the bound, or are the newest alone, and their bytes
\* are accounted for: no sequence of repeats, evictions and new operations
\* makes Records::bytes drift (mem_drain.rs:32 and :79).
BoundKept == /\ bytes = Total(entries)
             /\ bytes <= Bound \/ Len(entries) = 1

\* The index of the oldest record never goes back, neither by an eviction nor
\* by the start of an operation, so that a reader can tell entries apart
\* (mem_drain.rs:36).
IndexMonotonic == [][FirstIndex' >= FirstIndex]_vars

\* The watcher prints no entry twice and none out of order, whatever was
\* evicted or discarded between two of its polls (main.rs:131).
PrintedInOrder ==
  \A i, j \in DOMAIN printed : i < j => printed[i] < printed[j]

\* Of the entries still held, the watcher has printed all those it has moved
\* past: it only misses what was dropped between two polls.
NoneSkipped ==
  \A i \in FirstIndex..(inserted - 1) : i < next => \E j \in DOMAIN printed : printed[j] = i

\* What makes the two hold: the watcher moves along the indices, and an answer
\* is about records that were held.
WatchInv ==
  /\ entries \in Seq(LogRecord) /\ inserted \in Nat /\ Len(entries) <= inserted
  /\ answer \in Answer /\ next \in Nat /\ printed \in Seq(Nat)
  /\ answer.first + answer.len <= inserted
  /\ answer.first <= FirstIndex
  /\ next <= answer.first + answer.len
  /\ \A i \in DOMAIN printed : printed[i] < next
  /\ PrintedInOrder
  /\ NoneSkipped
=============================================================================
