--------------------------- MODULE TransitionsProofs ---------------------------
(***************************************************************************)
(* What an agent does between its updates, for any settings files, any     *)
(* clock, any server and any listener.                                     *)
(***************************************************************************)
EXTENDS Transitions, FiniteSetTheorems, TLAPS

(***************************************************************************)
(* Lemmas about the operators.                                             *)
(***************************************************************************)
\* Thirteen shifts, all of them at least one.
LEMMA ShiftedPositive == \A n \in 1..13 : Shifted[n] \in Nat \ {0}
<1> TAKE n \in 1..13
<1>1. CASE n \in 1..6
  BY <1>1 DEF Shifted
<1>2. CASE n \in 7..13
  BY <1>2 DEF Shifted
<1> QED BY <1>1, <1>2

\* A retry waits for a second at least, and for an interval at most.
LEMMA RetryDelayBounds ==
  ASSUME NEW n \in Nat, NEW i \in Int, i >= 1
  PROVE  RetryDelay(n, i) \in 1..i
<1> DEFINE k == Least(Positive(n - 1), 12) + 1
<1>1. k \in 1..13
  BY DEF Least, Positive
<1>2. Shifted[k] \in Nat \ {0}
  BY <1>1, ShiftedPositive
<1>3. Cap(i) \in 1..i
  BY DEF Cap, Least, MaxRetryDelay
<1> HIDE DEF k
<1>4. Least(Shifted[k], Cap(i)) \in 1..i
  BY <1>2, <1>3 DEF Least
<1> QED BY <1>4 DEF RetryDelay, k

\* What is loaded is what the type says, and valid.
LEMMA Loaded ==
  ASSUME NEW f \in File, NEW s \in Load(f)
  PROVE  s \in Settings /\ Valid(s)
<1>1. CASE f.format = "absent"
  <2>1. s = Default
    BY <1>1 DEF Load
  <2> QED BY <2>1 DEF Default, Settings, Valid, Prefixed, Sockets, Day
<1>2. CASE f.format # "absent"
  <2>1. s = Values(f) /\ Valid(s) /\ (TomlParses(f) \/ IniParses(f))
    BY <1>2 DEF Load, Parse
  <2>2. Values(f) \in Settings
    BY DEF Values, Settings, File, Prefixed, Sockets, Missing
  <2> QED BY <2>1, <2>2
<1> QED BY <1>1, <1>2

\* An agent that goes on was not told to cancel.
LEMMA ContinueIsConsent ==
  ASSUME NEW cs \in Callbacks, Transition(cs) = "continue"
  PROVE  Cancels(cs) = {}
<1> SUFFICES ASSUME Cancels(cs) # {} PROVE FALSE
  OBVIOUS
<1>1. IsFiniteSet(Cancels(cs)) /\ Cardinality(Cancels(cs)) \in Nat \ {0}
  <2>1. cs \in Seq(Reaction) /\ DOMAIN cs = 1..Len(cs) /\ Len(cs) \in Nat
    BY ListenerAssumption DEF ListenerAssumption
  <2>2. IsFiniteSet(1..Len(cs))
    BY <2>1, FS_Interval
  <2>3. Cancels(cs) \subseteq 1..Len(cs)
    BY <2>1 DEF Cancels, Ran
  <2> QED BY <2>2, <2>3, FS_Subset, FS_CardinalityType, FS_EmptySet
<1>2. CASE Cardinality(Cancels(cs)) = 1
  BY <1>2 DEF Transition
<1>3. CASE Cardinality(Cancels(cs)) > 1
  BY <1>3 DEF Transition
<1> QED BY <1>1, <1>2, <1>3

\* What a callback says: only "continue" lets a state be handled, and then no
\* callback cancelled it.
LEMMA Consent ==
  ASSUME NEW s, NEW transition, Outcome(s, transition)
  PROVE  objected' \in BOOLEAN /\ (transition = "continue" => ~objected')
BY ContinueIsConsent DEF Outcome

(***************************************************************************)
(* Type correctness.                                                       *)
(***************************************************************************)
\* The interval polled at is a minute at least.
LEMMA Intervals ==
  ASSUME TypeOK
  PROVE  settings.interval \in Int /\ settings.interval >= 60
BY DEF TypeOK, Settings, Valid

LEMMA Sinces ==
  ASSUME TypeOK
  PROVE  mem.since \in Int /\ mem.retries \in Nat
BY DEF TypeOK, Record

LEMMA RetryWaits ==
  ASSUME TypeOK, NEW n \in Nat
  PROVE  /\ RetryDelay(n, settings.interval) \in Nat
         /\ 1 <= RetryDelay(n, settings.interval)
         /\ RetryDelay(n, settings.interval) <= settings.interval
<1>1. settings.interval \in Int /\ settings.interval >= 1
  BY Intervals
<1> QED BY <1>1, RetryDelayBounds

\* What the setters make of a record is one.
LEMMA Updated ==
  ASSUME NEW rec \in Record, NEW a \in Int, NEW n \in Nat, NEW address \in Address
  PROVE  /\ [rec EXCEPT !.retries = n, !.since = a] \in Record
         /\ [rec EXCEPT !.server = address] \in Record
         /\ [rec EXCEPT !.server = address, !.since = a] \in Record
BY DEF Record

\* A wait is never negative, whatever the server asked for.
LEMMA Waits ==
  ASSUME TypeOK, NEW s \in State, NEW d \in Int
  PROVE  /\ Goto(s) => /\ pc' \in State /\ waiting' = "no"
                       /\ left' = 0 /\ woken' = FALSE
         /\ Delayed(s, d) => /\ pc' \in State /\ waiting' = "timed"
                             /\ left' \in Nat /\ woken' = FALSE
BY DEF TypeOK, Goto, Delayed, Positive

\* The Boolean variables stay Boolean.
Flags == woken \in BOOLEAN /\ logging \in BOOLEAN /\ objected \in BOOLEAN /\ swapped \in BOOLEAN

LEMMA FlagsTyped == TypeOK /\ [Next]_vars => Flags'
<1> SUFFICES ASSUME TypeOK, [Next]_vars PROVE Flags'
  OBVIOUS
<1>0. Flags
  BY DEF TypeOK, Flags
<1> USE <1>0 DEF Flags
<1>1. CASE UNCHANGED vars
  BY <1>1 DEF vars, loop, world, attempt
<1>2. CASE Tick \/ WaitEnds \/ ClockSet \/ Start \/ Restart
  BY <1>2 DEF Tick, WaitEnds, ClockSet, Start, Restart, loop, world, attempt
<1>3. CASE AskOfProbe
  BY <1>3, Consent DEF AskOfProbe, Continue, SaveThen, Goto, attempt
<1>4. CASE AskOfLocalInstall \/ AskOfError
  BY <1>4, Consent DEF AskOfLocalInstall, AskOfError, Continue, Goto, attempt
<1>5. ASSUME NEW s, NEW r, AskAndReport(s, r) PROVE Flags'
  BY <1>5, Consent DEF AskAndReport, Continue, Goto
<1>6. CASE EntryPoint \/ Park \/ Poll \/ ProbeUrlError
  BY <1>6 DEF EntryPoint, Park, Poll, ProbeUrlError, Handle, SaveThen, Goto, Delayed, attempt
<1>7. CASE ProbeFails \/ ProbeExtraPoll \/ ProbeNoUpdate \/ ProbeUpdate
  BY <1>7 DEF ProbeFails, ProbeExtraPoll, ProbeNoUpdate, ProbeUpdate, Handle, SaveThen,
     Goto, Delayed, attempt
<1>8. CASE Validation \/ DirectDownload \/ Preparing
  BY <1>8 DEF Validation, DirectDownload, Preparing, Handle, Goto, attempt
<1>9. CASE Downloading \/ Installing \/ Rebooting
  BY <1>9 DEF Downloading, Installing, Rebooting, Handle, LeaveWith, Goto
<1>10. CASE Requests
  BY <1>10 DEF Requests, ApiInstall, ApiProbe, Wake, loop, world, attempt
<1> QED BY <1>1, <1>2, <1>3, <1>4, <1>5, <1>6, <1>7, <1>8, <1>9, <1>10
  DEF Next, Asks, Handlers, Environment, AskOfDownload, AskOfInstall, AskOfReboot

\* The settings stay valid ones, and what is kept of the runtime settings a record.
LEMMA DataTyped ==
  TypeOK /\ [Next]_vars => /\ file' \in Files
                          /\ settings' \in Settings /\ Valid(settings)'
                          /\ mem' \in Record
<1> SUFFICES ASSUME TypeOK, [Next]_vars
             PROVE  /\ file' \in Files
                    /\ settings' \in Settings /\ Valid(settings)'
                    /\ mem' \in Record
  OBVIOUS
<1>0. file \in Files /\ settings \in Settings /\ Valid(settings) /\ mem \in Record
  BY DEF TypeOK
<1>1. /\ file' \in Files
      /\ settings' \in Settings /\ Valid(settings)'
  <2>1. CASE Start
    <3>1. PICK s \in Load(file) : settings' = s
      BY <2>1 DEF Start
    <3>2. file' = file /\ file \in File
      BY <1>0, <2>1, TransitionsAssumption DEF Start, TransitionsAssumption
    <3> QED BY <1>0, <3>1, <3>2, Loaded
  <2>2. CASE ~Start
    <3>1. UNCHANGED <<file, settings>>
      BY <2>2 DEF Next, Asks, Handlers, Requests, Environment, Tick, WaitEnds, ClockSet,
         Restart, AskOfProbe, AskOfLocalInstall, AskOfError, AskOfDownload, AskOfInstall,
         AskOfReboot, AskAndReport, Ask, EntryPoint, Park, Poll, ProbeUrlError, ProbeFails,
         ProbeExtraPoll, ProbeNoUpdate, ProbeUpdate, Validation, DirectDownload, Preparing,
         Downloading, Installing, Rebooting, Handle, ApiInstall, ApiProbe, world, vars
    <3> QED BY <1>0, <3>1
  <2> QED BY <2>1, <2>2
<1>2. mem' \in Record
  <2>1. CASE \E a \in Int : mem' = [mem EXCEPT !.since = a]
    BY <1>0, <2>1 DEF Record
  <2>2. CASE UNCHANGED mem \/ Restart
    BY <1>0, <2>2, TransitionsAssumption DEF Restart, TransitionsAssumption
  <2>3. CASE Tick
    <3>1. PICK d \in {left} \cup {p \in Pauses : p < left} :
            mem' = [mem EXCEPT !.since = Aged(@ + d)]
      BY <2>3 DEF Tick
    <3>2. d \in Nat
      BY TransitionsAssumption DEF TransitionsAssumption, TypeOK
    <3>3. Aged(mem.since + d) \in Int
      BY <1>0, <3>2, TransitionsAssumption DEF Aged, Record, TransitionsAssumption
    <3> QED BY <2>1, <3>1, <3>3
  <2>4. CASE ClockSet
    BY <2>1, <2>4, TransitionsAssumption DEF ClockSet, TransitionsAssumption
  <2>5. CASE AskOfProbe
    BY <2>1, <2>2, <2>5 DEF AskOfProbe
  <2>6. CASE Start \/ EntryPoint
    BY <1>0, <2>6 DEF Start, EntryPoint, Record, Address
  <2>7. CASE ProbeFails
    BY <1>0, <2>7 DEF ProbeFails, Record
  <2>8. CASE ProbeExtraPoll
    BY <1>0, <2>8 DEF ProbeExtraPoll, Record
  <2>9. CASE ProbeNoUpdate \/ ProbeUpdate
    <3>1. mem' = [mem EXCEPT !.retries = 0, !.since = 0]
      BY <2>9 DEF ProbeNoUpdate, ProbeUpdate, Answered
    <3>2. 0 \in Int /\ 0 \in Nat /\ "default" \in Address
      BY DEF Address
    <3> QED BY <1>0, <3>1, <3>2, Updated, Zenon
  <2>10. CASE ApiProbe
    <3>1. PICK address \in Address :
            \/ mem' = [mem EXCEPT !.server = address]
            \/ mem' = [mem EXCEPT !.server = address, !.since = 0]
      BY <1>0, <2>10 DEF ApiProbe, Record, Address
    <3>2. 0 \in Int /\ 0 \in Nat
      OBVIOUS
    <3> QED BY <1>0, <3>1, <3>2, Updated, Zenon
  <2>11. CASE ApiInstall
    BY <1>0, <2>11 DEF ApiInstall
  <2> QED BY <2>2, <2>3, <2>4, <2>5, <2>6, <2>7, <2>8, <2>9, <2>10, <2>11
    DEF Next, Requests, Asks, Handlers, Environment, AskOfDownload, AskOfInstall, AskOfReboot,
        AskAndReport, AskOfLocalInstall, AskOfError, WaitEnds, Park, Poll, ProbeUrlError,
        Validation, DirectDownload, Preparing, Downloading, Installing, Rebooting, vars
<1> QED BY <1>1, <1>2

\* So does the rest: the states, the waits and the counts.
Counts == /\ pc \in State /\ waiting \in {"no", "timed", "ever"} /\ left \in Nat
          /\ told \in Reports /\ waited \in Nat /\ spins \in 0..3

LEMMA AskCounts == Counts /\ Asks => Counts'
<1> SUFFICES ASSUME Counts, Asks PROVE Counts'
  OBVIOUS
<1> USE DEF Counts, Ask, Continue, Running, Goto, State, Preemptive, Validating, Updating,
    attempt, quiet
<1>1. CASE AskOfProbe
  BY <1>1 DEF AskOfProbe, SaveThen
<1>2. CASE AskOfLocalInstall
  BY <1>2 DEF AskOfLocalInstall
<1>3. CASE AskOfError
  BY <1>3 DEF AskOfError
<1>4. ASSUME NEW s \in {"download", "install", "reboot"}, NEW r \in Reports, AskAndReport(s, r)
      PROVE  Counts'
  BY <1>4 DEF AskAndReport, Report
<1> QED BY <1>1, <1>2, <1>3, <1>4 DEF Asks, AskOfDownload, AskOfInstall, AskOfReboot, Reports

LEMMA HandlerCounts == TypeOK /\ Handlers => Counts'
<1> SUFFICES ASSUME TypeOK, Handlers PROVE Counts'
  OBVIOUS
<1>0. Counts /\ mem \in Record
  BY DEF TypeOK, Counts
<1> USE <1>0 DEF Counts, Handle, Goto, State, Preemptive, Validating, Updating, attempt, quiet
<1>1. CASE EntryPoint \/ Park \/ ProbeUrlError
  BY <1>1 DEF EntryPoint, Park, ProbeUrlError, SaveThen, Reports
<1>2. CASE Poll
  <2>1. PollDelay(mem.since, settings.interval) \in Int
    BY Intervals, Sinces DEF PollDelay
  <2>2. CASE Goto("probe")
    BY <1>2, <2>2 DEF Poll
  <2>3. CASE Delayed("probe", PollDelay(mem.since, settings.interval))
    <3>1. pc' \in State /\ waiting' = "timed" /\ left' \in Nat
      BY <2>1, <2>3, Waits
    <3> QED BY <1>2, <3>1 DEF Poll
  <2> QED BY <1>2, <2>2, <2>3 DEF Poll
<1>3. CASE ProbeFails
  <2>1. mem'.retries \in Nat
    BY <1>0, <1>3 DEF ProbeFails, Record
  <2>2. RetryDelay(mem'.retries, settings.interval) \in Int
    BY <2>1, RetryWaits
  <2>3. pc' \in State /\ waiting' = "timed" /\ left' \in Nat
    BY <1>3, <2>2, Waits DEF ProbeFails
  <2> QED BY <1>3, <2>3 DEF ProbeFails
<1>4. CASE ProbeExtraPoll
  <2>1. PICK e \in ExtraPolls : Delayed("probe", e)
    BY <1>4 DEF ProbeExtraPoll
  <2>2. e \in Int
    BY TransitionsAssumption DEF TransitionsAssumption
  <2>3. pc' \in State /\ waiting' = "timed" /\ left' \in Nat
    BY <2>1, <2>2, Waits
  <2> QED BY <1>4, <2>3 DEF ProbeExtraPoll
<1>5. CASE ProbeNoUpdate \/ ProbeUpdate
  BY <1>5 DEF ProbeNoUpdate, ProbeUpdate, SaveThen, Reports
<1>6. CASE Validation \/ DirectDownload \/ Preparing
  BY <1>6 DEF Validation, DirectDownload, Preparing
<1>7. CASE Downloading \/ Installing \/ Rebooting
  BY <1>7 DEF Downloading, Installing, Rebooting, LeaveWith, Report, Reports
<1> QED BY <1>1, <1>2, <1>3, <1>4, <1>5, <1>6, <1>7 DEF Handlers

\* No step leaves the types.
LEMMA NextTyped == TypeOK /\ [Next]_vars => TypeOK'
<1> SUFFICES ASSUME TypeOK, [Next]_vars PROVE TypeOK'
  OBVIOUS
<1>0. Counts
  BY DEF TypeOK, Counts
<1>1. Counts'
  <2>1. CASE UNCHANGED vars
    BY <1>0, <2>1 DEF Counts, vars, loop, attempt, quiet
  <2>2. CASE Tick
    <3>1. PICK d \in {left} \cup {p \in Pauses : p < left} :
            left' = left - d /\ waited' = waited + d
      BY <2>2 DEF Tick
    <3>2. d \in Nat /\ d <= left
      BY <1>0, TransitionsAssumption DEF TransitionsAssumption, Counts
    <3> QED BY <1>0, <2>2, <3>1, <3>2 DEF Counts, Tick, attempt
  <2>3. CASE WaitEnds \/ ClockSet
    BY <1>0, <2>3 DEF Counts, WaitEnds, ClockSet, loop, attempt, quiet
  <2>4. CASE Start \/ Restart
    BY <1>0, <2>4 DEF Counts, Start, Restart, State, Preemptive, Reports
  <2>5. CASE ApiInstall
    BY <1>0, <2>5 DEF Counts, ApiInstall, Wake, State, Updating, Reports
  <2>6. CASE ApiProbe
    <3>1. \/ UNCHANGED <<loop, attempt, waited>>
          \/ waited' = 0 /\ \/ \E s \in {"entryPoint", pc} : Wake(s) /\ UNCHANGED attempt
                            \/ Wake("validation") /\ told' = None
      BY <2>6 DEF ApiProbe
    <3>2. pc' \in State
      BY <1>0, <3>1 DEF Counts, Wake, loop, State, Preemptive, Validating
    <3> QED BY <1>0, <2>6, <3>1, <3>2 DEF Counts, ApiProbe, Wake, loop, attempt, Reports
  <2> QED BY <1>0, <2>1, <2>2, <2>3, <2>4, <2>5, <2>6, AskCounts, HandlerCounts
    DEF Next, Requests, Environment
<1> QED BY <1>1, FlagsTyped, DataTyped DEF TypeOK, Counts, Flags

LEMMA InitTyped == Init => TypeOK
<1> SUFFICES ASSUME Init PROVE TypeOK
  OBVIOUS
<1>1. settings \in Settings /\ Valid(settings)
  BY DEF Init, Settings, Default, Valid, Prefixed, Sockets, Day
<1>2. mem \in Record /\ file \in Files
  BY TransitionsAssumption DEF Init, TransitionsAssumption
<1>3. Flags
  BY DEF Init, Flags
<1>4. Counts
  BY DEF Init, Counts, State, Reports
<1> QED BY <1>1, <1>2, <1>3, <1>4 DEF TypeOK, Counts, Flags

\* Every state of an agent is of the types stated, and the settings it runs with
\* are acceptable ones.
THEOREM TypeCorrect == Spec => []TypeOK
<1>1. Init => TypeOK
  BY InitTyped
<1>2. TypeOK /\ [Next]_vars => TypeOK'
  BY NextTyped
<1> QED BY <1>1, <1>2, PTL DEF Spec

(***************************************************************************)
(* The course of an attempt.                                               *)
(***************************************************************************)
\* What is consented to, logged and told; the sets are swapped when a reboot is
\* next.
AttemptInv == /\ CancelHeeded
              /\ UpdatesAreLogged
              /\ InstalledIsTrue
              /\ pc \in {"reboot", "rebooting"} => swapped

LEMMA AttemptKept == AttemptInv /\ [Next]_vars => AttemptInv'
<1> SUFFICES ASSUME AttemptInv, [Next]_vars PROVE AttemptInv'
  OBVIOUS
<1> USE DEF AttemptInv, CancelHeeded, UpdatesAreLogged, InstalledIsTrue, Running,
    Updating, Validating, None
<1>1. CASE UNCHANGED vars
  BY <1>1 DEF vars, loop, world, attempt
<1>2. CASE Tick \/ WaitEnds \/ ClockSet
  BY <1>2 DEF Tick, WaitEnds, ClockSet, loop, world, attempt
<1>3. CASE Start \/ Restart
  BY <1>3 DEF Start, Restart
<1>4. CASE AskOfProbe
  BY <1>4, Consent DEF AskOfProbe, Ask, Continue, SaveThen, Goto, attempt
<1>5. CASE AskOfLocalInstall
  BY <1>5, Consent DEF AskOfLocalInstall, Ask, Continue, Goto, attempt
<1>6. CASE AskOfError
  BY <1>6 DEF AskOfError, Ask, Goto, attempt
<1>7. CASE AskOfDownload
  BY <1>7, Consent DEF AskOfDownload, AskAndReport, Ask, Continue, Report, Goto
<1>8. CASE AskOfInstall
  BY <1>8, Consent DEF AskOfInstall, AskAndReport, Ask, Continue, Report, Goto
<1>9. CASE AskOfReboot
  BY <1>9, Consent DEF AskOfReboot, AskAndReport, Ask, Continue, Report, Goto
<1>10. CASE EntryPoint \/ Park \/ Poll \/ ProbeUrlError
  BY <1>10 DEF EntryPoint, Park, Poll, ProbeUrlError, Handle, SaveThen, Goto, Delayed, attempt
<1>11. CASE ProbeFails \/ ProbeExtraPoll \/ ProbeNoUpdate \/ ProbeUpdate
  BY <1>11 DEF ProbeFails, ProbeExtraPoll, ProbeNoUpdate, ProbeUpdate, Handle, SaveThen,
     Goto, Delayed, attempt
<1>12. CASE Validation \/ DirectDownload \/ Preparing
  BY <1>12 DEF Validation, DirectDownload, Preparing, Handle, Goto, attempt
<1>13. CASE Downloading \/ Installing \/ Rebooting
  BY <1>13 DEF Downloading, Installing, Rebooting, Handle, LeaveWith, Report, Goto
<1>14. CASE ApiInstall
  BY <1>14 DEF ApiInstall, Wake
<1>15. CASE ApiProbe
  BY <1>15 DEF ApiProbe, Wake, Preemptive, loop, attempt
<1> QED BY <1>1, <1>2, <1>3, <1>4, <1>5, <1>6, <1>7, <1>8, <1>9, <1>10, <1>11, <1>12,
           <1>13, <1>14, <1>15 DEF Next, Asks, Handlers, Requests, Environment

LEMMA AttemptHolds == Spec => []AttemptInv
<1>1. Init => AttemptInv
  BY DEF Init, AttemptInv, CancelHeeded, UpdatesAreLogged, InstalledIsTrue, Running,
     Updating, Validating, None
<1> QED BY <1>1, AttemptKept, PTL DEF Spec

\* No state is handled whose callback cancelled it, however many callbacks
\* answered and whichever of them failed.
THEOREM CancelsAreHeeded == Spec => []CancelHeeded
<1>1. AttemptInv => CancelHeeded
  BY DEF AttemptInv
<1> QED BY <1>1, AttemptHolds, PTL

\* From the moment an update is known its log is recorded.
THEOREM LoggedThroughout == Spec => []UpdatesAreLogged
<1>1. AttemptInv => UpdatesAreLogged
  BY DEF AttemptInv
<1> QED BY <1>1, AttemptHolds, PTL

\* The server is told of an installation only when there is one.
THEOREM InstalledIsInstalled == Spec => []InstalledIsTrue
<1>1. AttemptInv => InstalledIsTrue
  BY DEF AttemptInv
<1> QED BY <1>1, AttemptHolds, PTL

(***************************************************************************)
(* The schedule.                                                           *)
(***************************************************************************)
LEMMA Sooner ==
  ASSUME NEW x \in Int, NEW y \in Int, NEW i \in Int, Within(x, i), y <= x
  PROVE  Within(y, i)
BY TransitionsAssumption DEF Within, TransitionsAssumption

\* While the last polling lies in the past, what was waited since then is what
\* the clock says and one wait at most; while it lies in the future, one wait at
\* most was begun.
TimelyInv ==
  /\ Within(left, settings.interval)
  /\ mem.since < 0 => Within(waited + left, settings.interval)
  /\ mem.since >= 0 => Within(waited - mem.since, settings.interval)
  /\ ProbesInTime
  /\ pc # "down" => settings.interval < Never
  /\ pc = "down" => waiting = "no"

\* A wait that begins with the server just asked.
LEMMA JustAsked ==
  ASSUME TypeOK, NEW d \in Nat, NEW a \in Int, Within(d, settings.interval), a >= -1
  PROVE  /\ Within(0 + d, settings.interval)
         /\ Within(0 - a, settings.interval)
         /\ Within(0 + d - settings.interval, settings.interval)
<1>1. settings.interval \in Int /\ settings.interval >= 60
  BY Intervals
<1>2. Within(0 - a, settings.interval)
  BY <1>1 DEF Within
<1> QED BY <1>1, <1>2, Sooner

LEMMA TimelyTick == TypeOK /\ TimelyInv /\ Tick => TimelyInv'
<1> SUFFICES ASSUME TypeOK, TimelyInv, Tick PROVE TimelyInv'
  OBVIOUS
<1>0. /\ left \in Nat /\ waited \in Nat /\ Never \in Int
      /\ waiting = "timed" /\ waiting' = waiting /\ pc' = pc
      /\ settings' = settings
  BY TransitionsAssumption DEF TypeOK, Tick, world, TransitionsAssumption
<1>1. PICK d \in {left} \cup {p \in Pauses : p < left} :
        /\ left' = left - d
        /\ mem' = [mem EXCEPT !.since = Aged(@ + d)]
        /\ waited' = waited + d
  BY DEF Tick
<1>2. d \in Nat /\ d <= left
  BY <1>0, TransitionsAssumption DEF TransitionsAssumption
<1>3. mem'.since = Aged(mem.since + d) /\ mem.since \in Int
  BY <1>1, Sinces DEF TypeOK, Record
<1> DEFINE I == settings.interval
<1>4. I \in Int /\ I >= 60 /\ I < Never
  BY <1>0, Intervals DEF TimelyInv, Tick, TypeOK
<1> HIDE DEF I
<1>5. Within(left', I)
  <2>1. left' \in Int /\ left' <= left
    BY <1>0, <1>1, <1>2
  <2>2. Within(left, I)
    BY DEF TimelyInv, I
  <2> QED BY <1>0, <1>4, <2>1, <2>2, Sooner
<1>6. Within(waited' + left' - I, I)
  <2>1. waited' + left' = waited + left
    BY <1>0, <1>1, <1>2
  <2>2. Within(waited + left - I, I)
    BY <1>0 DEF TimelyInv, ProbesInTime, I
  <2> DEFINE x == waited + left - I
             y == waited' + left' - I
  <2>3. x \in Int /\ y \in Int /\ y <= x
    BY <1>0, <1>1, <1>2, <1>4, <2>1
  <2> HIDE DEF x, y
  <2>4. Within(x, I)
    BY <2>2 DEF x
  <2>5. Within(y, I)
    BY <1>4, <2>3, <2>4, Sooner
  <2> QED BY <2>5 DEF y
<1>7. mem'.since < 0 => Within(waited' + left', I)
  <2> SUFFICES ASSUME mem'.since < 0 PROVE Within(waited' + left', I)
    OBVIOUS
  <2>1. mem.since < 0
    <3>1. CASE mem.since + d > I
      BY <1>0, <1>3, <1>4, <3>1 DEF Aged, I
    <3>2. CASE mem.since + d <= I
      BY <1>2, <1>3, <1>4, <3>2 DEF Aged, I
    <3> QED BY <1>2, <1>3, <1>4, <3>1, <3>2
  <2>2. waited' + left' = waited + left
    BY <1>0, <1>1, <1>2
  <2> QED BY <2>1, <2>2 DEF TimelyInv, I
<1>8. mem'.since >= 0 => Within(waited' - mem'.since, I)
  <2> SUFFICES ASSUME mem'.since >= 0 PROVE Within(waited' - mem'.since, I)
    OBVIOUS
  <2>1. CASE mem.since + d > I
    <3>1. mem'.since = Never
      BY <1>3, <2>1 DEF Aged, I
    <3>2. waited' - mem'.since <= waited + left - I
      BY <1>0, <1>1, <1>2, <1>4, <3>1
    <3>3. Within(waited + left - I, I)
      BY <1>0 DEF TimelyInv, ProbesInTime, I
    <3> QED BY <1>0, <1>1, <1>2, <1>4, <3>1, <3>2, <3>3, Sooner
  <2>2. CASE mem.since + d <= I /\ mem.since >= 0
    <3>1. mem'.since = mem.since + d
      BY <1>2, <1>3, <1>4, <2>2 DEF Aged, I
    <3>2. waited' - mem'.since = waited - mem.since
      BY <1>0, <1>1, <1>2, <1>3, <3>1
    <3> QED BY <2>2, <3>2 DEF TimelyInv, I
  <2>3. CASE mem.since + d <= I /\ mem.since < 0
    <3>1. mem'.since = mem.since + d
      BY <1>2, <1>3, <1>4, <2>3 DEF Aged, I
    <3>2. waited' - mem'.since <= waited + left
      BY <1>0, <1>1, <1>2, <1>3, <2>3, <3>1
    <3>3. Within(waited + left, I)
      BY <2>3 DEF TimelyInv, I
    <3> QED BY <1>0, <1>1, <1>2, <1>3, <1>4, <3>1, <3>2, <3>3, Sooner
  <2> QED BY <1>2, <1>3, <1>4, <2>1, <2>2, <2>3
<1> QED BY <1>0, <1>4, <1>5, <1>6, <1>7, <1>8 DEF TimelyInv, ProbesInTime, I

\* A step that asks the server, or sets the clock, and begins a wait or none.
LEMMA TimelyAsked ==
  ASSUME TypeOK, TimelyInv, NEW l \in Nat, left' = l, Within(l, settings.interval),
         waited' = 0, settings' = settings, mem'.since \in Int,
         pc # "down", pc' # "down"
  PROVE  TimelyInv'
<1> DEFINE I == settings.interval
<1>1. I \in Int /\ I >= 60 /\ I < Never
  BY Intervals DEF TimelyInv
<1> HIDE DEF I
<1>2. Within(l, I)
  BY DEF I
<1>3. l = 0 + l
  OBVIOUS
<1>4. mem'.since >= 0 => Within(0 - mem'.since, I)
  BY <1>1 DEF Within
<1>5. Within(0 + l - I, I)
  <2>1. 0 + l - I \in Int /\ 0 + l - I <= l
    BY <1>1
  <2> QED BY <1>1, <1>2, <2>1, Sooner
<1>6. settings'.interval = I
  BY DEF I
<1> QED BY <1>1, <1>2, <1>3, <1>4, <1>5, <1>6 DEF TimelyInv, ProbesInTime

\* A step that leaves the schedule alone and cuts a wait short, or not.
LEMMA TimelyCut ==
  ASSUME TypeOK, TimelyInv, NEW l \in Nat, left' = l, l <= left,
         waited' = waited, settings' = settings, mem'.since = mem.since,
         waiting' = "timed" => waiting = "timed",
         pc # "down", pc' # "down"
  PROVE  TimelyInv'
<1> DEFINE I == settings.interval
           x == waited + left
           y == waited + l
<1>1. I \in Int /\ left \in Nat /\ waited \in Nat
  BY Intervals DEF TypeOK
<1>2. I < Never
  BY DEF TimelyInv
<1>3. /\ x \in Int /\ y \in Int /\ y <= x
      /\ x - I \in Int /\ y - I \in Int /\ y - I <= x - I
  BY <1>1
<1>4. /\ Within(left, I)
      /\ mem.since < 0 => Within(x, I)
      /\ waiting = "timed" => Within(x - I, I)
  <2>1. Within(left, I) /\ (mem.since < 0 => Within(x, I))
    BY <1>1 DEF TimelyInv
  <2>2. waiting = "timed" => Within(x - I, I)
    BY <1>1 DEF TimelyInv, ProbesInTime
  <2> QED BY <2>1, <2>2
<1>5. settings'.interval = I /\ waited' + left' = y
  OBVIOUS
<1> HIDE DEF I, x, y
<1>6. Within(l, I)
  BY <1>1, <1>4, Sooner
<1>7. mem.since < 0 => Within(y, I)
  BY <1>1, <1>3, <1>4, Sooner
<1>8. waiting' = "timed" => Within(y - I, I)
  BY <1>1, <1>3, <1>4, Sooner
<1>9. mem.since >= 0 => Within(waited - mem.since, I)
  BY DEF TimelyInv, I
<1>10. ProbesInTime'
  BY <1>1, <1>3, <1>5, <1>8 DEF ProbesInTime
<1>11. /\ Within(left', settings'.interval)
       /\ mem'.since < 0 => Within(waited' + left', settings'.interval)
       /\ mem'.since >= 0 => Within(waited' - mem'.since, settings'.interval)
  BY <1>1, <1>3, <1>5, <1>6, <1>7, <1>9
<1> QED BY <1>2, <1>5, <1>10, <1>11 DEF TimelyInv

\* The wait of Poll: none for a last polling in the future.
LEMMA TimelyPoll == TypeOK /\ TimelyInv /\ Poll => TimelyInv'
<1> SUFFICES ASSUME TypeOK, TimelyInv, Poll PROVE TimelyInv'
  OBVIOUS
<1>0. /\ waited' = waited /\ settings' = settings /\ mem' = mem
      /\ pc # "down" /\ pc' # "down"
      /\ left \in Nat /\ waited \in Nat /\ mem.since \in Int
  BY Sinces DEF Poll, Handle, Goto, Delayed, quiet, TypeOK
<1> DEFINE I == settings.interval
           s == mem.since
<1>1. I \in Int /\ I >= 60 /\ I < Never /\ s \in Int
  BY <1>0, Intervals DEF TimelyInv
<1>2. CASE PollAtOnce(s, I)
  <2>1. left' = 0 /\ waiting' = "no"
    BY <1>2 DEF Poll, Goto
  <2> QED BY <1>0, <2>1, TimelyCut
<1>3. CASE ~PollAtOnce(s, I)
  <2>1. 0 <= s /\ s <= I
    BY <1>1, <1>3 DEF PollAtOnce
  <2>2. PICK l \in Nat : left' = l /\ l <= I - s
    BY <1>1, <1>3, <2>1 DEF Poll, Delayed, PollDelay, Positive
  <2> HIDE DEF I, s
  <2>3. Within(l, I)
    BY <1>1, <2>1, <2>2 DEF Within
  <2>4. Within(waited - s, I)
    BY <2>1 DEF TimelyInv, I, s
  <2>5. Within(waited + l - I, I)
    <3>1. waited - s \in Int /\ waited + l - I \in Int /\ waited + l - I <= waited - s
      BY <1>0, <1>1, <2>2
    <3> QED BY <1>1, <2>4, <3>1, Sooner
  <2>6. settings'.interval = I /\ mem'.since = s
    BY <1>0 DEF I, s
  <2> QED BY <1>0, <1>1, <2>1, <2>2, <2>3, <2>4, <2>5, <2>6 DEF TimelyInv, ProbesInTime
<1> QED BY <1>2, <1>3

\* No wait at all is within bounds.
LEMMA NoWait ==
  ASSUME TypeOK
  PROVE  Within(0, settings.interval) /\ 0 \in Nat /\ left \in Nat /\ 0 <= left
BY Intervals DEF Within, TypeOK

LEMMA TimelyAsks == TypeOK /\ TimelyInv /\ Asks /\ TypeOK' => TimelyInv'
<1> SUFFICES ASSUME TypeOK, TimelyInv, Asks, TypeOK' PROVE TimelyInv'
  OBVIOUS
<1>0. mem'.since \in Int
  BY Sinces DEF TypeOK, Record
<1>1. CASE AskOfProbe
  <2>1. settings' = settings /\ pc # "down" /\ pc' # "down" /\ waiting = "no"
    BY <1>1 DEF AskOfProbe, Ask, Continue, Running, SaveThen, Goto
  <2>2. \/ left' = left /\ waited' = waited /\ mem' = mem /\ waiting' = waiting
        \/ left' = 0 /\ waited' = 0
    BY <1>1 DEF AskOfProbe, SaveThen, Goto
  <2>3. CASE left' = left /\ waited' = waited /\ mem' = mem /\ waiting' = waiting
    BY <2>1, <2>3, NoWait, TimelyCut
  <2>4. CASE left' = 0 /\ waited' = 0
    BY <1>0, <2>1, <2>4, NoWait, TimelyAsked
  <2> QED BY <2>2, <2>3, <2>4
<1>2. CASE ~AskOfProbe
  <2>1. /\ settings' = settings /\ pc # "down" /\ pc' # "down" /\ waiting = "no"
        /\ waited' = waited /\ mem' = mem
    BY <1>2 DEF Asks, AskOfLocalInstall, AskOfError, AskOfDownload, AskOfInstall,
       AskOfReboot, AskAndReport, Ask, Continue, Running, Goto, quiet
  <2>2. waiting' = "no" /\ (left' = left \/ left' = 0)
    BY <1>2 DEF Asks, AskOfLocalInstall, AskOfError, AskOfDownload, AskOfInstall,
       AskOfReboot, AskAndReport, Ask, Goto
  <2> QED BY <2>1, <2>2, NoWait, TimelyCut
<1> QED BY <1>1, <1>2

LEMMA TimelyHandlers == TypeOK /\ TimelyInv /\ Handlers /\ TypeOK' => TimelyInv'
<1> SUFFICES ASSUME TypeOK, TimelyInv, Handlers, TypeOK' PROVE TimelyInv'
  OBVIOUS
<1>0. mem'.since \in Int
  BY DEF TypeOK, Record
<1>1. CASE EntryPoint \/ Park \/ ProbeUrlError
  <2>1. /\ settings' = settings /\ pc # "down" /\ pc' # "down"
        /\ waiting' # "timed" /\ (left' = left \/ left' = 0) /\ waited' = waited
    BY <1>1 DEF EntryPoint, Park, ProbeUrlError, Handle, SaveThen, Goto, quiet
  <2>2. mem'.since = mem.since
    BY <1>1 DEF EntryPoint, Park, ProbeUrlError, TypeOK, Record
  <2> QED BY <2>1, <2>2, NoWait, TimelyCut
<1>2. CASE Poll
  BY <1>2, TimelyPoll
<1>3. CASE ProbeFails
  <2>1. settings' = settings /\ pc # "down" /\ pc' # "down" /\ waited' = 0
    BY <1>3 DEF ProbeFails, Handle, Delayed
  <2>2. mem'.retries \in Nat
    BY DEF TypeOK, Record
  <2>3. PICK n \in Nat : mem'.retries = n
    BY <2>2
  <2>4. PICK l \in Nat : left' = l /\ l <= settings.interval
    BY <1>3, <2>3, RetryWaits, NoWait, Intervals DEF ProbeFails, Delayed, Positive
  <2>5. Within(l, settings.interval)
    BY <2>4 DEF Within
  <2> QED BY <1>0, <2>1, <2>4, <2>5, TimelyAsked
<1>4. CASE ProbeExtraPoll
  <2>1. settings' = settings /\ pc # "down" /\ pc' # "down" /\ waited' = 0
    BY <1>4 DEF ProbeExtraPoll, Handle, Delayed
  <2>2. PICK e \in ExtraPolls : Delayed("probe", e)
    BY <1>4 DEF ProbeExtraPoll
  <2>3. e \in Int
    BY TransitionsAssumption DEF TransitionsAssumption
  <2>4. PICK l \in Nat : left' = l /\ (l <= e \/ l = 0)
    BY <2>2, <2>3 DEF Delayed, Positive
  <2>5. Within(l, settings.interval)
    BY <2>4, NoWait DEF Within
  <2> QED BY <1>0, <2>1, <2>4, <2>5, TimelyAsked
<1>5. CASE ProbeNoUpdate \/ ProbeUpdate
  <2>1. settings' = settings /\ pc # "down" /\ pc' # "down" /\ waited' = 0 /\ left' = 0
    BY <1>5 DEF ProbeNoUpdate, ProbeUpdate, Handle, SaveThen, Goto
  <2> QED BY <1>0, <2>1, NoWait, TimelyAsked
<1>6. CASE \/ Validation \/ Downloading \/ Installing \/ Rebooting
           \/ DirectDownload \/ Preparing
  <2>1. /\ settings' = settings /\ pc # "down" /\ pc' # "down"
        /\ waiting' = "no" /\ left' = 0 /\ waited' = waited /\ mem' = mem
    BY <1>6 DEF Validation, Validating, Downloading, Installing, Rebooting, DirectDownload,
       Preparing, LeaveWith, Handle, Goto, quiet
  <2> QED BY <2>1, NoWait, TimelyCut
<1> QED BY <1>1, <1>2, <1>3, <1>4, <1>5, <1>6 DEF Handlers

LEMMA TimelyKept == TypeOK /\ TimelyInv /\ [Next]_vars /\ TypeOK' => TimelyInv'
<1> SUFFICES ASSUME TypeOK, TimelyInv, [Next]_vars, TypeOK' PROVE TimelyInv'
  OBVIOUS
<1>0. mem'.since \in Int
  BY DEF TypeOK, Record
<1>1. CASE UNCHANGED vars
  BY <1>1 DEF vars, loop, world, quiet, TimelyInv, ProbesInTime
<1>2. CASE WaitEnds
  <2>1. /\ settings' = settings /\ pc # "down" /\ pc' = pc /\ waiting' = "no"
        /\ left' = left /\ waited' = waited /\ mem' = mem
    BY <1>2 DEF WaitEnds, TimelyInv, world, quiet
  <2> QED BY <2>1, NoWait, TimelyCut
<1>3. CASE ClockSet
  <2>1. settings' = settings /\ pc # "down" /\ pc' = pc /\ left' = left /\ waited' = 0
    BY <1>3 DEF ClockSet, TimelyInv, loop, world
  <2>2. Within(left, settings.interval)
    BY DEF TimelyInv
  <2> QED BY <1>0, <2>1, <2>2, NoWait, TimelyAsked
<1>4. CASE Start \/ Restart
  <2>1. waiting' = "no" /\ left' = 0 /\ waited' = 0
    BY <1>4 DEF Start, Restart
  <2>2. settings'.interval \in Int /\ settings'.interval >= 60
    BY DEF TypeOK, Settings, Valid
  <2>3. pc' # "down" => settings'.interval < Never
    BY <1>4, TransitionsAssumption DEF Start, Restart, TransitionsAssumption, TypeOK
  <2>4. Within(0, settings'.interval)
    BY <2>2 DEF Within
  <2>5. mem'.since >= 0 => Within(0 - mem'.since, settings'.interval)
    BY <1>0, <2>2 DEF Within
  <2> QED BY <2>1, <2>3, <2>4, <2>5 DEF TimelyInv, ProbesInTime
<1>5. CASE ApiInstall
  <2>1. /\ settings' = settings /\ pc # "down" /\ pc' # "down" /\ waiting' = "no"
        /\ left' = 0 /\ waited' = waited /\ mem' = mem
    BY <1>5 DEF ApiInstall, Wake, Preemptive, Validating, world
  <2> QED BY <2>1, NoWait, TimelyCut
<1>6. CASE ApiProbe
  <2>1. settings' = settings /\ pc # "down" /\ pc' # "down"
    BY <1>6 DEF ApiProbe, Wake, Preemptive, Validating, world, loop
  <2>2. \/ left' = left /\ waited' = waited /\ waiting' = waiting /\ mem'.since = mem.since
        \/ left' = 0 /\ waited' = 0
    BY <1>6 DEF ApiProbe, Wake, loop, TypeOK, Record
  <2>3. CASE left' = left /\ waited' = waited /\ waiting' = waiting /\ mem'.since = mem.since
    BY <2>1, <2>3, NoWait, TimelyCut
  <2>4. CASE left' = 0 /\ waited' = 0
    BY <1>0, <2>1, <2>4, NoWait, TimelyAsked
  <2> QED BY <2>2, <2>3, <2>4
<1> QED BY <1>1, <1>2, <1>3, <1>4, <1>5, <1>6, TimelyTick, TimelyAsks, TimelyHandlers
  DEF Next, Requests, Environment

\* Whatever the clock, the server and its users do, the server is asked within
\* two intervals, or the longest delay a server asked for and one.
THEOREM ServerIsAskedInTime == Spec => []ProbesInTime
<1>1. Init => TypeOK /\ TimelyInv
  <2> SUFFICES ASSUME Init PROVE TypeOK /\ TimelyInv
    OBVIOUS
  <2>1. TypeOK
    BY InitTyped
  <2>2. pc = "down" /\ waiting = "no" /\ left = 0 /\ waited = 0
    BY DEF Init
  <2>3. mem.since >= 0 => Within(0 - mem.since, settings.interval)
    BY <2>1, Sinces, Intervals DEF Within
  <2> QED BY <2>1, <2>2, <2>3, NoWait DEF TimelyInv, ProbesInTime
<1>2. (TypeOK /\ TimelyInv) /\ [Next]_vars => (TypeOK /\ TimelyInv)'
  BY NextTyped, TimelyKept
<1>3. TypeOK /\ TimelyInv => ProbesInTime
  BY DEF TimelyInv
<1> QED BY <1>1, <1>2, <1>3, PTL DEF Spec

(***************************************************************************)
(* No spinning.                                                            *)
(***************************************************************************)
One(b) == IF b THEN 1 ELSE 0

\* Poll would ask at once.
Due == mem.since < 0 \/ mem.since >= settings.interval

\* The probes that may yet be entered with no time passing and no request: one
\* when the last polling is long past or in the future, or one that was forced;
\* another when the address fails to parse, for that leaves the last polling as
\* it was, or when a wake is pending as the probe fails, for it ends the delay.
AfterProbe == IF mem.server = "notUrl" THEN One(Due) ELSE One(woken)
Budget ==
  CASE pc = "probing" -> AfterProbe
    [] pc = "probe"   -> IF waiting = "timed" /\ left > 0 THEN 0 ELSE 1 + AfterProbe
    [] pc = "poll"    -> IF Due THEN 1 + One(mem.server = "notUrl") ELSE One(woken)
    [] OTHER          -> IF mem.now THEN 1 + One(Due /\ mem.server = "notUrl")
                                    ELSE One(Due)

SpinInv == /\ spins + Budget <= 2
           /\ mem.now => pc \notin {"poll", "probe", "probing"}

\* The budget is two at most, and one at least where a probe is asked for.
LEMMA BudgetBounds == Budget \in 0..2
<1>1. AfterProbe \in 0..1
  BY DEF AfterProbe, One
<1> QED BY <1>1 DEF Budget, One

LEMMA NextBudgetBounds == Budget' \in 0..2
<1>1. AfterProbe' \in 0..1
  BY DEF AfterProbe, One
<1> QED BY <1>1 DEF Budget, One

\* Once the server was asked, nothing is due.
LEMMA NotDue ==
  ASSUME TypeOK, mem'.since = 0, settings' = settings
  PROVE  ~Due'
BY Intervals DEF Due

\* Of a state that is not on the way to a probe.
Elsewhere(s) == s \notin {"poll", "probe", "probing"}

LEMMA SpinAsks == TypeOK /\ SpinInv /\ Asks => SpinInv'
<1> SUFFICES ASSUME TypeOK, SpinInv, Asks PROVE SpinInv'
  OBVIOUS
<1>0. spins \in 0..3 /\ settings' = settings /\ mem \in Record
  BY DEF TypeOK, Asks, AskOfProbe, AskOfLocalInstall, AskOfError, AskOfDownload,
     AskOfInstall, AskOfReboot, AskAndReport, Ask
<1>1. CASE AskOfProbe
  <2>1. pc = "probe" /\ waiting = "no" /\ ~mem.now /\ AfterProbe \in 0..1
    BY <1>1 DEF AskOfProbe, Ask, SpinInv, AfterProbe, One
  <2>2. spins + 1 + AfterProbe <= 2
    BY <1>0, <2>1 DEF SpinInv, Budget
  <2>3. spins' = spins + 1
    BY <1>0, <1>1, <2>1, <2>2 DEF AskOfProbe
  <2>4. CASE Continue("probe") /\ UNCHANGED <<woken, mem>>
    <3>1. pc' = "probing" /\ AfterProbe' = AfterProbe
      BY <1>0, <2>4 DEF Continue, Running, AfterProbe, Due
    <3> QED BY <1>0, <2>1, <2>2, <2>3, <2>4, <3>1 DEF SpinInv, Budget
  <2>5. CASE mem' = [mem EXCEPT !.since = 0] /\ pc' = "entryPoint"
    <3>1. mem'.since = 0 /\ mem'.now = mem.now
      BY <1>0, <2>5 DEF Record
    <3>2. Budget' = 0
      BY <1>0, <2>1, <2>5, <3>1, NotDue DEF Budget, One
    <3> QED BY <1>0, <2>1, <2>2, <2>3, <2>5, <3>1, <3>2 DEF SpinInv
  <2> QED BY <1>1, <2>4, <2>5 DEF AskOfProbe, SaveThen, Goto
<1>2. CASE ~AskOfProbe
  <2>1. Elsewhere(pc) /\ Elsewhere(pc') /\ UNCHANGED <<mem, spins>>
    BY <1>2 DEF Asks, AskOfLocalInstall, AskOfError, AskOfDownload, AskOfInstall,
       AskOfReboot, AskAndReport, Ask, Continue, Running, Goto, quiet, Elsewhere
  <2>2. Budget' = Budget
    BY <1>0, <2>1 DEF Budget, Elsewhere, Due
  <2> QED BY <2>1, <2>2 DEF SpinInv, Elsewhere
<1> QED BY <1>1, <1>2

\* The probe, entered from EntryPoint or Poll, leaves one probe less to come.
LEMMA SpinToProbe == TypeOK /\ SpinInv /\ (EntryPoint \/ Poll) => SpinInv'
<1> SUFFICES ASSUME TypeOK, SpinInv, EntryPoint \/ Poll PROVE SpinInv'
  OBVIOUS
<1>0. /\ spins \in 0..3 /\ spins' = spins /\ settings' = settings /\ mem \in Record
      /\ mem.now \in BOOLEAN
  BY DEF TypeOK, EntryPoint, Poll, Handle, quiet, Record
<1>1. CASE EntryPoint /\ mem.now
  <2>1. /\ mem'.since = mem.since /\ mem'.server = mem.server /\ ~mem'.now
        /\ pc' \in {"probe", "error"} /\ waiting' = "no" /\ ~woken'
    BY <1>0, <1>1 DEF EntryPoint, SaveThen, Goto, Record
  <2>2. Due' = Due
    BY <1>0, <2>1 DEF Due
  <2>3. Budget = 1 + One(Due /\ mem.server = "notUrl")
    BY <1>1 DEF EntryPoint, Handle, Budget
  <2>4. AfterProbe' = One(Due /\ mem.server = "notUrl")
    BY <2>1, <2>2 DEF AfterProbe, One
  <2>5. Budget' <= Budget
    BY <2>1, <2>2, <2>3, <2>4 DEF Budget, One
  <2> QED BY <1>0, <2>1, <2>5, BudgetBounds DEF SpinInv, Budget, AfterProbe, One
<1>2. CASE EntryPoint /\ ~mem.now
  <2>1. /\ mem'.since = mem.since /\ mem'.server = "default" /\ ~mem'.now
        /\ pc' \in {"poll", "park"} /\ ~woken'
    BY <1>0, <1>2 DEF EntryPoint, Goto, Record
  <2>2. Due' = Due
    BY <1>0, <2>1 DEF Due
  <2>3. Budget = One(Due)
    BY <1>2 DEF EntryPoint, Handle, Budget
  <2>4. Budget' = One(Due)
    BY <2>1, <2>2 DEF Budget, One
  <2> QED BY <1>0, <2>1, <2>3, <2>4 DEF SpinInv, One
<1>3. CASE Poll
  <2>1. pc = "poll" /\ ~mem.now /\ mem' = mem /\ pc' = "probe" /\ ~woken'
    BY <1>3 DEF Poll, Handle, Goto, Delayed, SpinInv
  <2>2. Budget = IF Due THEN 1 + One(mem.server = "notUrl") ELSE One(woken)
    BY <2>1 DEF Budget
  <2>3. AfterProbe' = IF mem.server = "notUrl" THEN One(Due) ELSE 0
    BY <1>0, <2>1 DEF AfterProbe, Due, One
  <2>4. CASE Due
    BY <1>0, <2>1, <2>2, <2>3, <2>4 DEF SpinInv, Budget, One
  <2>5. CASE ~Due
    <3>1. mem.since \in Int /\ 0 <= mem.since /\ mem.since < settings.interval
      BY <2>5, Sinces, Intervals DEF Due
    <3>2. Delayed("probe", settings.interval - mem.since)
      BY <1>3, <3>1, Intervals DEF Poll, PollAtOnce, PollDelay
    <3>3. waiting' = "timed" /\ (woken \/ left' > 0)
      BY <3>1, <3>2, Intervals DEF Delayed, Positive
    <3>4. AfterProbe' = 0
      BY <2>3, <2>5 DEF One
    <3>5. Budget' <= Budget
      BY <2>1, <2>2, <2>5, <3>3, <3>4 DEF Budget, One
    <3> QED BY <1>0, <2>1, <3>4, <3>5, BudgetBounds DEF SpinInv, Budget
  <2> QED BY <2>4, <2>5
<1> QED BY <1>0, <1>1, <1>2, <1>3

LEMMA SpinProbes ==
  TypeOK /\ SpinInv /\ (ProbeUrlError \/ ProbeFails \/ ProbeNoUpdate \/ ProbeUpdate)
    => SpinInv'
<1> SUFFICES ASSUME TypeOK, SpinInv,
                    ProbeUrlError \/ ProbeFails \/ ProbeNoUpdate \/ ProbeUpdate
             PROVE  SpinInv'
  OBVIOUS
<1>0. /\ spins \in 0..3 /\ spins' = spins /\ settings' = settings /\ mem \in Record
      /\ pc = "probing" /\ ~mem.now /\ mem.now \in BOOLEAN /\ Budget = AfterProbe
  BY DEF TypeOK, ProbeUrlError, ProbeFails, ProbeNoUpdate, ProbeUpdate, Handle, quiet,
     Record, SpinInv, Budget
<1>1. CASE ProbeUrlError
  <2>1. pc' = "error" /\ mem' = mem /\ mem.server = "notUrl"
    BY <1>1 DEF ProbeUrlError, Goto
  <2>2. Budget' = Budget
    BY <1>0, <2>1 DEF Budget, AfterProbe, Due
  <2> QED BY <1>0, <2>1, <2>2 DEF SpinInv
<1>2. CASE ProbeFails
  <2>1. PICK n \in Nat : mem' = [mem EXCEPT !.retries = n]
    BY <1>2, Sinces DEF ProbeFails
  <2>2. /\ mem'.since = mem.since /\ mem'.server = mem.server /\ mem'.now = mem.now
        /\ mem'.retries = n
    BY <1>0, <2>1 DEF Record
  <2>3. RetryDelay(n, settings.interval) \in Nat /\ RetryDelay(n, settings.interval) >= 1
    BY RetryWaits
  <2>4. /\ pc' = "probe" /\ waiting' = "timed" /\ ~woken' /\ mem.server # "notUrl"
        /\ woken \/ left' > 0
    BY <1>2, <2>2, <2>3 DEF ProbeFails, Delayed, Positive
  <2>5. AfterProbe' = 0 /\ AfterProbe = One(woken)
    BY <2>2, <2>4 DEF AfterProbe, One
  <2>6. Budget' <= Budget
    BY <1>0, <2>4, <2>5 DEF Budget, One
  <2> QED BY <1>0, <2>2, <2>4, <2>5, <2>6, BudgetBounds DEF SpinInv, Budget
<1>3. CASE ProbeNoUpdate \/ ProbeUpdate
  <2>1. mem' = [mem EXCEPT !.retries = 0, !.since = 0] /\ Elsewhere(pc')
    BY <1>3 DEF ProbeNoUpdate, ProbeUpdate, Answered, SaveThen, Goto, Elsewhere
  <2>2. mem'.since = 0 /\ mem'.now = mem.now
    BY <1>0, <2>1 DEF Record
  <2>3. Budget' = 0
    BY <1>0, <2>1, <2>2, NotDue DEF Budget, Elsewhere, One
  <2> QED BY <1>0, <2>1, <2>2, <2>3, BudgetBounds DEF SpinInv, Elsewhere
<1> QED BY <1>1, <1>2, <1>3

LEMMA SpinKept == TypeOK /\ SpinInv /\ [Next]_vars => SpinInv'
<1> SUFFICES ASSUME TypeOK, SpinInv, [Next]_vars PROVE SpinInv'
  OBVIOUS
<1>0. mem \in Record /\ spins \in 0..3
  BY DEF TypeOK
<1>b. PICK b \in 0..2 : Budget' = b
  BY NextBudgetBounds
<1>1. CASE UNCHANGED vars
  BY <1>1 DEF vars, loop, world, quiet, SpinInv, Budget, AfterProbe, Due
<1>2. CASE WaitEnds
  <2>1. UNCHANGED <<pc, left, woken, mem, settings, spins>> /\ left = 0
    BY <1>2 DEF WaitEnds, world, quiet
  <2>2. Budget' = Budget
    BY <1>0, <2>1 DEF Budget, AfterProbe, Due
  <2> QED BY <2>1, <2>2 DEF SpinInv
<1>3. CASE Tick \/ ClockSet
  <2>1. pc' = pc /\ spins' = 0 /\ mem'.now = mem.now
    BY <1>0, <1>3 DEF Tick, ClockSet, loop, Record
  <2> QED BY <1>b, <2>1 DEF SpinInv
<1>4. CASE Start \/ Restart \/ ApiInstall
  <2>1. Elsewhere(pc') /\ spins' = 0
    BY <1>4 DEF Start, Restart, ApiInstall, Wake, Elsewhere
  <2> QED BY <1>b, <2>1 DEF SpinInv, Elsewhere
<1>5. CASE ApiProbe
  <2>1. spins' = 0 /\ mem'.now = mem.now
    BY <1>0, <1>5 DEF ApiProbe, Record
  <2>2. pc' = pc \/ Elsewhere(pc')
    BY <1>5 DEF ApiProbe, Wake, loop, Elsewhere
  <2> QED BY <1>b, <2>1, <2>2 DEF SpinInv, Elsewhere
<1>6. CASE ProbeExtraPoll
  <2>1. spins' = 0 /\ mem'.now = mem.now /\ pc = "probing"
    BY <1>0, <1>6 DEF ProbeExtraPoll, Handle, Record
  <2> QED BY <1>b, <2>1 DEF SpinInv
<1>7. CASE \/ Park \/ Validation \/ Downloading \/ Installing \/ Rebooting
           \/ DirectDownload \/ Preparing
  <2>1. Elsewhere(pc) /\ Elsewhere(pc') /\ UNCHANGED <<mem, spins, settings>>
    BY <1>7 DEF Park, Validation, Validating, Downloading, Installing, Rebooting,
       DirectDownload, Preparing, LeaveWith, Handle, Goto, quiet, Elsewhere
  <2>2. Budget' = Budget
    BY <1>0, <2>1 DEF Budget, Elsewhere, Due
  <2> QED BY <2>1, <2>2 DEF SpinInv, Elsewhere
<1> QED BY <1>1, <1>2, <1>3, <1>4, <1>5, <1>6, <1>7, SpinAsks, SpinToProbe, SpinProbes
  DEF Next, Handlers, Requests, Environment

\* Whatever is in the files and whatever goes wrong, no more than two probes
\* are entered before time passes or someone asks for one.
THEOREM NeverSpins == Spec => []NoSpin
<1>1. Init => TypeOK /\ SpinInv
  BY InitTyped, BudgetBounds DEF Init, SpinInv
<1>2. (TypeOK /\ SpinInv) /\ [Next]_vars => (TypeOK /\ SpinInv)'
  BY NextTyped, SpinKept
<1>3. TypeOK /\ SpinInv => NoSpin
  BY BudgetBounds DEF SpinInv, NoSpin, TypeOK
<1> QED BY <1>1, <1>2, <1>3, PTL DEF Spec

-----------------------------------------------------------------------------
(***************************************************************************)
(* The order of the states.                                                *)
(***************************************************************************)
\* A handler that runs is that of its state.
LEMMA Stages ==
  /\ pc \in Validating => Stage = "validation"
  /\ \A s \in DOMAIN Running : pc = Running[s] => Stage = s
  /\ pc \notin Validating \cup {Running[s] : s \in DOMAIN Running} => Stage = pc
BY DEF Stage, Validating, Running

LEMMA StagesNext ==
  /\ pc' \in Validating => Stage' = "validation"
  /\ \A s \in DOMAIN Running : pc' = Running[s] => Stage' = s
  /\ pc' \notin Validating \cup {Running[s] : s \in DOMAIN Running} => Stage' = pc'
BY DEF Stage, Validating, Running

LEMMA OrderStep == [Next]_vars => [Order!Next]_Stage
<1> SUFFICES ASSUME [Next]_vars PROVE Order!Next \/ Stage' = Stage
  OBVIOUS
<1> USE Stages, StagesNext DEF Order!Next
<1>1. CASE Tick \/ WaitEnds \/ ClockSet \/ UNCHANGED vars
  <2>1. pc' = pc
    BY <1>1 DEF Tick, WaitEnds, ClockSet, loop, vars
  <2> QED BY <2>1 DEF Stage
<1>2. CASE Start
  BY <1>2 DEF Start, Order!Start, Order!Down, Validating, Running
<1>3. CASE Restart
  BY <1>3 DEF Restart, Order!Stop, Order!Down, Validating, Running
<1>4. CASE Asks
  <2>1. \E s \in {"probe", "prepareLocalInstall", "error", "download", "install", "reboot"} :
          /\ pc = s
          /\ \/ s \in DOMAIN Running /\ pc' = Running[s]
             \/ pc' = "entryPoint"
             \/ s \in {"download", "install", "reboot"} /\ pc' = "error"
    BY <1>4 DEF Asks, AskOfProbe, AskOfLocalInstall, AskOfError, AskOfDownload, AskOfInstall,
                AskOfReboot, AskAndReport, Ask, Continue, Goto, SaveThen, Running
  <2> QED BY <2>1 DEF Order!Move, Order!Leads, Validating, Running
<1>5. CASE EntryPoint \/ Park \/ Poll
  <2>1. \/ pc = "entryPoint" /\ pc' \in {"probe", "error", "poll", "park"}
        \/ pc = "park" /\ pc' = pc
        \/ pc = "poll" /\ pc' = "probe"
    BY <1>5 DEF EntryPoint, Park, Poll, Handle, Goto, SaveThen, Delayed
  <2> QED BY <2>1 DEF Order!Move, Order!Leads, Validating, Running
<1>6. CASE ProbeUrlError \/ ProbeFails \/ ProbeExtraPoll \/ ProbeNoUpdate \/ ProbeUpdate
  <2>1. pc = Running["probe"] /\ pc' \in {"probe", "entryPoint", "validation", "error"}
    BY <1>6 DEF ProbeUrlError, ProbeFails, ProbeExtraPoll, ProbeNoUpdate, ProbeUpdate, Handle,
                Goto, SaveThen, Delayed, Running
  <2> QED BY <2>1 DEF Order!Move, Order!Leads, Validating, Running
<1>7. CASE Validation
  <2>1. pc \in Validating /\ pc' \in {"download", "install", "entryPoint", "error"}
    BY <1>7 DEF Validation, Handle, Goto, Validating
  <2> QED BY <2>1 DEF Order!Move, Order!Leads, Validating, Running
<1>8. CASE Downloading \/ Installing \/ Rebooting
  <2>1. \/ /\ pc = Running["download"]
           /\ pc' \in {"validationInPlace", "entryPoint", "error"}
        \/ pc = Running["install"] /\ pc' \in {"reboot", "error"}
        \/ pc = Running["reboot"] /\ pc' \in {"entryPoint", "error"}
    BY <1>8 DEF Downloading, Installing, Rebooting, Handle, LeaveWith, Goto, Running
  <2> QED BY <2>1 DEF Order!Move, Order!Leads, Validating, Running
<1>9. CASE DirectDownload \/ Preparing
  <2>1. \/ pc = "directDownload" /\ pc' \in {"prepareLocalInstall", "entryPoint", "error"}
        \/ pc = Running["prepareLocalInstall"] /\ pc' \in {"validationInPlace", "error"}
    BY <1>9 DEF DirectDownload, Preparing, Handle, Goto, Running
  <2> QED BY <2>1 DEF Order!Move, Order!Leads, Validating, Running
<1>10. CASE Requests
  <2>1. /\ pc \in Preemptive
        /\ \/ pc' = pc
           \/ pc' \in {"entryPoint", "validation", "prepareLocalInstall", "directDownload"}
    BY <1>10 DEF Requests, ApiInstall, ApiProbe, Wake, loop
  <2> QED BY <2>1 DEF Order!Request, Order!Preemptive, Preemptive, Validating, Running
<1> QED BY <1>1, <1>2, <1>3, <1>4, <1>5, <1>6, <1>7, <1>8, <1>9, <1>10
        DEF Next, Handlers, Environment

\* The states come in the order of the abstract machine, whatever the callbacks
\* write, which saves fail, and whenever the agent is killed.
THEOREM StatesInOrder == Spec => InOrder
<1>1. Init => Order!Init
  BY Stages DEF Init, Order!Init, Order!Down, Validating, Running
<1> QED BY <1>1, OrderStep, PTL DEF Spec, InOrder, Order!Spec
=============================================================================
