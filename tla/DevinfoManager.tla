--------------------------- MODULE DevinfoManager ---------------------------
(***************************************************************************)
(* The manager walks through the items of the report, one collector call   *)
(* after another, driven by a timer.  Everything runs in one event loop:   *)
(* a timer callback runs to completion (here a sequence of steps during    *)
(* which loop = "progress" and no other event is handled), and requests    *)
(* and shell-process events are handled only while loop = "idle".          *)
(*                                                                         *)
(* When a getter is still collecting, the run ends, the polling interval   *)
(* is doubled and a new timer is armed.  After the last item the run calls *)
(* the requester back and the manager is free again.                       *)
(***************************************************************************)
EXTENDS DevinfoCollector

CONSTANTS
  Policy,           \* how the manager's callback of each item stores answers
  ObjectItems,      \* items whose callback only stores object values
  Preset,           \* items that the configuration file gives a value to
  NoRequest,        \* the NULL user data
  IntervalModulus,  \* 2^w, w the width of the polling interval (32 in C)
  RuntimeMayFail    \* TRUE: the runtime may refuse to arm a timer or to send a
                    \* notification

ASSUME PolicyAssumption ==
  Policy \in [Items -> {"keepPreset", "plain", "blankOut", "list"}]
ASSUME ObjectItemsAssumption == ObjectItems \subseteq Items
ASSUME PresetAssumption == Preset \subseteq Items
ASSUME NoRequestAssumption == NoRequest \notin Requests
ASSUME IntervalModulusAssumption == IntervalModulus \in Nat \ {0, 1}
ASSUME RuntimeMayFailAssumption == RuntimeMayFail \in BOOLEAN

NotStarted == 0
Done == LastItem + 1

Intervals == 0 .. IntervalModulus - 1

VARIABLES
  fState,                    \* NotStarted, the item being collected, or Done
  fCollectCallbackUserData,  \* context of the request being collected for
  fRepository,               \* where the value of each item comes from
  fStateMonitorInterval,     \* polling interval
  timers,                    \* intervals of the armed timers
  firing,                    \* interval of the timer whose callback runs, 0 if
                             \* none does
  loop,                      \* what the event loop is doing
  result                     \* what each request has been told so far

managerVars == <<fState, fCollectCallbackUserData, fRepository,
                 fStateMonitorInterval, timers, firing, loop, result>>
vars == <<collectorVars, managerVars>>

\* The value of an item is the set of its origins: nothing, the configuration
\* file, the blank string, or the requests it was read from the device for
\* (several of them only if a list mixes the entries of several collections).
Origins == {"preset", "blank"} \cup Requests
Repository == [Items -> SUBSET Origins]

Results == {"unsent", "accepted", "refused", "failed", "answered"}

-----------------------------------------------------------------------------
(* Storing an answer.  Each operator is the new value of an entry.         *)

\* Mutant of KeepPreset and BlankOut: a missing source leaves no blank value.
NoBlank(entry, answer, r) == IF answer = "ok" THEN {r} ELSE entry

\* Vendor, product, model, serial: a preset survives a missing source.
KeepPreset(entry, answer, r) ==
  IF answer = "ok" THEN {r}
  ELSE IF answer = "noent" /\ entry = {} THEN {"blank"} ELSE entry

\* Firmware version, device id: a missing source blanks the entry.
BlankOut(entry, answer, r) ==
  IF answer = "ok" THEN {r}
  ELSE IF answer = "noent" THEN {"blank"} ELSE entry

\* Interfaces, name servers, SIMs: every answer appends to the list.
AddToList(entry, answer, r) ==
  IF answer = "ok" THEN entry \cup {r} ELSE entry

\* All other items keep what they have unless there is a value.
Plain(entry, answer, r) == IF answer = "ok" THEN {r} ELSE entry

Stored(i, answer, r) ==
  LET entry == fRepository[i] IN
  CASE Policy[i] = "keepPreset" -> KeepPreset(entry, answer, r)
    [] Policy[i] = "blankOut"   -> BlankOut(entry, answer, r)
    [] Policy[i] = "list"       -> AddToList(entry, answer, r)
    [] Policy[i] = "plain"      -> Plain(entry, answer, r)

Store(i, answer, r) ==
  fRepository' = [fRepository EXCEPT ![i] = Stored(i, answer, r)]

\* A process hands an answer to whichever callback is registered now; the
\* callback of an object item ignores a value of another type.
Accepts(i, p) == i \in ObjectItems => p.item \in ObjectItems

Deliver(p, answer) ==
  IF fOnGetCallback # NoItem /\ Accepts(fOnGetCallback, p)
  THEN Store(fOnGetCallback, answer, p.request)
  ELSE UNCHANGED fRepository

\* Mutant: the repository is not reset when a collection begins.
ResetForgotten == UNCHANGED fRepository

\* The repository is emptied and the configuration file read again; a file
\* that cannot be read or parsed leaves it empty.
EmptyRepository == [i \in Items |-> {}]
PresetRepository == [i \in Items |-> IF i \in Preset THEN {"preset"} ELSE {}]
Reset == fRepository' \in {EmptyRepository, PresetRepository}

-----------------------------------------------------------------------------

TypeOK ==
  /\ CollectorTypeOK
  /\ fState \in 0 .. Done
  /\ fCollectCallbackUserData \in Requests \cup {NoRequest}
  /\ fRepository \in Repository
  /\ fStateMonitorInterval \in Intervals
  /\ timers \subseteq Intervals
  /\ firing \in Intervals
  /\ loop \in {"idle", "progress", "dead", "stopped"}
  /\ result \in [Requests -> Results]

Init ==
  /\ CollectorInit
  /\ fState = NotStarted
  /\ fCollectCallbackUserData = NoRequest
  /\ fRepository \in {EmptyRepository, PresetRepository}
  /\ fStateMonitorInterval = 0
  /\ timers = {}
  /\ firing = 0
  /\ loop = "idle"
  /\ result = [r \in Requests |-> "unsent"]

Tell(r, what) == result' = [result EXCEPT ![r] = what]

\* Mutant: entering a state advances it once more.
EnterNextStateTwice ==
  /\ fState' = fState + 2
  /\ Initialize

EnterNextState ==
  /\ fState' = fState + 1
  /\ Initialize

-----------------------------------------------------------------------------
(* Requests.                                                               *)

\* Mutant: the context is stored before the state is looked at.
CollectRefusedTakesOver(r) ==
  /\ loop = "idle"
  /\ result[r] = "unsent"
  /\ fState # NotStarted
  /\ fCollectCallbackUserData' = r
  /\ Tell(r, "refused")
  /\ UNCHANGED <<collectorVars, fState, fRepository, fStateMonitorInterval,
                 timers, firing, loop>>

\* A collection is in progress: the request gets SSE_E_ALREADY.
CollectRefused(r) ==
  /\ loop = "idle"
  /\ result[r] = "unsent"
  /\ fState # NotStarted
  /\ Tell(r, "refused")
  /\ UNCHANGED <<collectorVars, fState, fCollectCallbackUserData, fRepository,
                 fStateMonitorInterval, timers, firing, loop>>

\* Mutant: a collection in progress does not keep another one from beginning.
BeginCollectionBusy(r) ==
  /\ loop = "idle"
  /\ result[r] = "unsent"
  /\ fCollectCallbackUserData' = r
  /\ Reset
  /\ EnterNextState
  /\ disturbed' = (processes # {})
  /\ UNCHANGED <<processes, fStateMonitorInterval, firing>>

\* The part of Collect that runs whether or not the timer can be armed.
BeginCollection(r) ==
  /\ loop = "idle"
  /\ result[r] = "unsent"
  /\ fState = NotStarted
  /\ fCollectCallbackUserData' = r
  /\ Reset
  /\ EnterNextState
  /\ disturbed' = (processes # {})
  /\ UNCHANGED <<processes, fStateMonitorInterval, firing>>

CollectAccepted(r) ==
  /\ BeginCollection(r)
  /\ timers' = timers \cup {fStateMonitorInterval}
  /\ Tell(r, "accepted")
  /\ UNCHANGED loop

\* The error is logged with "%s" on an integer, which may end the program;
\* otherwise the requester is told, and the state stays at the first item.
CollectTimerFails(r) ==
  /\ RuntimeMayFail
  /\ BeginCollection(r)
  /\ Tell(r, "failed")
  /\ loop' \in {"idle", "dead"}
  /\ UNCHANGED timers

Collect(r) == CollectRefused(r) \/ CollectAccepted(r) \/ CollectTimerFails(r)

-----------------------------------------------------------------------------
(* The timer callback.                                                     *)

TimerFires(t) ==
  /\ loop = "idle"
  /\ t \in timers
  /\ timers' = timers \ {t}
  /\ firing' = t
  /\ loop' = "progress"
  /\ UNCHANGED <<collectorVars, fState, fCollectCallbackUserData, fRepository,
                 fStateMonitorInterval, result>>

Collecting == loop = "progress" /\ fState \in Items

\* The item's getter is called; its return code is only logged.
Execute(o) ==
  /\ Collecting
  /\ fStatus = "initialized"
  /\ Get(fState, o, fCollectCallbackUserData)
  /\ Store(fState, o.answer, fCollectCallbackUserData)
  /\ UNCHANGED <<fState, fCollectCallbackUserData, fStateMonitorInterval,
                 timers, firing, loop, result>>

\* The program may end in the middle of a run: in a getter that logs with a
\* conversion that no argument fits, and in the requester's callback, which
\* logs a notification that it cannot make with "%s" on an integer.
Crash ==
  /\ loop = "progress"
  /\ \/ fState \in Items /\ fStatus = "initialized"
        /\ Getter[fState] \in MislogsKinds
     \/ fState = Done /\ RuntimeMayFail
  /\ loop' = "dead"
  /\ UNCHANGED <<collectorVars, fState, fCollectCallbackUserData, fRepository,
                 fStateMonitorInterval, timers, firing, result>>

\* Mutant: an item that is still collecting is left as well.
NextItemEarly ==
  /\ Collecting
  /\ fStatus # "initialized"
  /\ EnterNextState
  /\ UNCHANGED <<processes, disturbed, fCollectCallbackUserData, fRepository,
                 fStateMonitorInterval, timers, firing, loop, result>>

\* Mutant: leaving an item advances the state too.
NextItemTwice ==
  /\ Collecting
  /\ fStatus \notin {"initialized", "collecting"}
  /\ fState' = fState + 2
  /\ Initialize
  /\ UNCHANGED <<processes, disturbed, fCollectCallbackUserData, fRepository,
                 fStateMonitorInterval, timers, firing, loop, result>>

\* Mutant: an item that ended abnormally is tried again.
NextItemRetries ==
  /\ Collecting
  /\ fStatus \notin {"initialized", "collecting"}
  /\ IF fStatus = "abend" THEN Initialize /\ UNCHANGED fState ELSE EnterNextState
  /\ UNCHANGED <<processes, disturbed, fCollectCallbackUserData, fRepository,
                 fStateMonitorInterval, timers, firing, loop, result>>

\* The getter is over, well or badly: leave the item and enter the next one.
NextItem ==
  /\ Collecting
  /\ fStatus \notin {"initialized", "collecting"}
  /\ EnterNextState
  /\ UNCHANGED <<processes, disturbed, fCollectCallbackUserData, fRepository,
                 fStateMonitorInterval, timers, firing, loop, result>>

NextInterval ==
  IF fStateMonitorInterval = 0 THEN 1
  ELSE (fStateMonitorInterval * 2) % IntervalModulus

\* The getter is still collecting: the run ends and the interval is doubled.
InProgress ==
  /\ Collecting
  /\ fStatus = "collecting"
  /\ fStateMonitorInterval' = NextInterval
  /\ firing' = 0
  /\ UNCHANGED <<collectorVars, fState, fCollectCallbackUserData, fRepository,
                 result>>

PollAgain ==
  /\ InProgress
  /\ timers' = timers \cup {fStateMonitorInterval'}
  /\ loop' = "idle"

\* Mutant: the callback does not ask for the old timer to be repeated.
PollTimerLost ==
  /\ RuntimeMayFail
  /\ InProgress
  /\ UNCHANGED timers
  /\ loop' \in {"idle", "dead"}

\* No new timer: the callback asks for the old one to be repeated.
PollTimerFails ==
  /\ RuntimeMayFail
  /\ InProgress
  /\ timers' = timers \cup {firing}
  /\ loop' \in {"idle", "dead"}

\* Mutant: the polling interval is not reset.
FinishKeepsInterval ==
  /\ loop = "progress"
  /\ fState = Done
  /\ Tell(fCollectCallbackUserData, "answered")
  /\ fState' = NotStarted
  /\ firing' = 0
  /\ loop' = "idle"
  /\ UNCHANGED <<collectorVars, fCollectCallbackUserData, fRepository,
                 fStateMonitorInterval, timers>>

\* All items are done: the requester is called back while the state is still
\* Done, then the manager is free.
Finish ==
  /\ loop = "progress"
  /\ fState = Done
  /\ Tell(fCollectCallbackUserData, "answered")
  /\ fState' = NotStarted
  /\ fStateMonitorInterval' = 0
  /\ firing' = 0
  /\ loop' = "idle"
  /\ UNCHANGED <<collectorVars, fCollectCallbackUserData, fRepository, timers>>

ItemStep ==
  \/ \E o \in OutcomeType : Execute(o)
  \/ NextItem
  \/ PollAgain
  \/ PollTimerFails

Progress == ItemStep \/ Finish \/ Crash

-----------------------------------------------------------------------------
(* Shell-process events.                                                   *)

ShellEvent ==
  /\ loop = "idle"
  /\ UNCHANGED <<fState, fCollectCallbackUserData, fStateMonitorInterval,
                 timers, firing, loop, result>>

ProcessReads(p)     == ShellEvent /\ OnRead(p)     /\ Deliver(p, "ok")
ProcessFails(p)     == ShellEvent /\ OnError(p)    /\ Deliver(p, "error")
ProcessCompletes(p) == ShellEvent /\ OnComplete(p) /\ UNCHANGED fRepository

ProcessEvent(p) == ProcessReads(p) \/ ProcessFails(p) \/ ProcessCompletes(p)

-----------------------------------------------------------------------------

\* Teardown, after the event loop has been left.
Finalize ==
  /\ loop = "idle"
  /\ loop' = "stopped"
  /\ fState' = NotStarted
  /\ fCollectCallbackUserData' = NoRequest
  /\ fRepository' = EmptyRepository
  /\ fStateMonitorInterval' = 0
  /\ timers' = {}
  /\ UNCHANGED <<collectorVars, firing, result>>

Next ==
  \/ \E r \in Requests : Collect(r)
  \/ \E t \in Intervals : TimerFires(t)
  \/ Progress
  \/ \E p \in Process : ProcessEvent(p)
  \/ Finalize

Spec == Init /\ [][Next]_vars

\* The loop goes on with a callback it has started and fires a timer that
\* stays armed.  A process that ends is noticed although timers keep firing
\* in between (the loop serves every ready watcher), and it does end.
Fairness ==
  /\ WF_vars(Progress)
  /\ WF_vars(\E t \in Intervals : TimerFires(t))
  /\ \A p \in Process : SF_vars(ProcessCompletes(p))

FairSpec == Spec /\ Fairness

-----------------------------------------------------------------------------
(* Safety.                                                                 *)

\* A collection in progress is never without a wake-up: between two runs
\* exactly one timer is armed for it, whatever timers could not be armed on
\* the way (DEVINFOManager_Progress, TDEVINFOManager_Collect), unless Collect
\* itself could arm none.  No timer is armed when nothing is being collected,
\* so a run never starts in the state NOT_STARTED.
OneWakeUp ==
  /\ loop = "progress" => timers = {} /\ fState # NotStarted
  /\ loop = "idle" =>
       IF fState # NotStarted /\ result[fCollectCallbackUserData] # "failed"
       THEN \E t \in Intervals : timers = {t}
       ELSE timers = {}

\* The shell process that the item being collected launched for the request
\* being served.
OwnProcess == [item |-> fState, request |-> fCollectCallbackUserData]

\* An item left in the status COLLECTING has a shell process of its own, for
\* the collection in progress, whose completion will move it on: the manager
\* never polls for something nobody is doing.
CollectingHasProcess ==
  fState \in Items /\ fStatus = "collecting" =>
    OwnProcess \in processes

\* The items that the manager may have to wait for.
AwaitedItems ==
  {i \in Items : \E o \in Outcomes(Getter[i]) : o.status = "collecting"}

\* When the requester is called back, every entry comes from the configuration
\* file, is blank, or was read for this very request: nothing of an earlier
\* collection is left in the repository.  Only lines of a process that outlived
\* its own collection can have slipped in during this one, and only where the
\* manager waited: at the entry of an item that is read by a command.
ReportIsOwn ==
  fState = Done =>
    \A i \in Items :
      \/ fRepository[i] \subseteq {"preset", "blank", fCollectCallbackUserData}
      \/ disturbed /\ i \in AwaitedItems

\* The items of policy MUST (vendor, product, model, serial, fwVersion and
\* deviceId) all have a value, be it blank, when the requester is called back.
\* Only the first item can be missing, when a process left over from an earlier
\* collection sets the status before the first timer fires: its getter is
\* skipped then.
MustItems == {i \in Items : Policy[i] \in {"keepPreset", "blankOut"}}
MustItemsReported ==
  fState = Done =>
    \A i \in MustItems : fRepository[i] # {} \/ (i = 1 /\ disturbed)

\* The manager walks away from an item whose own shell process for the current
\* request can still call back only if some process has reported an error
\* during this collection or was left over from an earlier one: an end of the
\* item that no error brought about means that its command is over.
LeavesItem == fState \in Items /\ fState' # fState /\ loop' # "stopped"
NoItemLeftRunning ==
  [][LeavesItem => OwnProcess \notin processes \/ disturbed]_vars

\* The back-off that a slow collection built up does not delay the first step
\* of a later one: its timer is armed with interval 0.
BackOffRestarts ==
  [][fState = NotStarted /\ fState' # NotStarted => timers' \subseteq {0}]_vars

\* The timer callback comes to an end: TDEVINFOManager_Progress calls itself
\* after every item and its only bound is this one, so no getter may leave an
\* item as it was found and no item may be entered twice in a run.
StepsLeft == 2 * (Done - fState) + (IF fStatus = "initialized" THEN 1 ELSE 0)
RunEnds ==
  [][loop = "progress" /\ loop' = "progress" =>
       StepsLeft \in Nat /\ StepsLeft' \in Nat /\ StepsLeft' < StepsLeft]_vars

\* What GetDevinfo returns between two collections does not change under the
\* requester: process events that come late find no callback to store through.
QuietBetweenCollections ==
  [][fState = NotStarted /\ fState' = NotStarted /\ loop' # "stopped" =>
       UNCHANGED fRepository]_vars

\* Reading the interfaces does not end the program: "Some interface might not
\* have IPv6 address" (devinfo_unittest.c), and the manager's callback takes a
\* missing address for an ordinary answer.
InterfacesAreSafe ==
  [][Collecting /\ Getter[fState] = "interfaces" => loop' # "dead"]_vars

\* The manager implements the service: it serves the requests one at a time,
\* refuses only while busy, and calls back the request it accepted, once.
Service == INSTANCE CollectService WITH
  serving <- IF fState = NotStarted THEN NoRequest ELSE fCollectCallbackUserData,
  up <- loop # "stopped"
ServiceSpec == Service!Spec

-----------------------------------------------------------------------------
(* Liveness.                                                               *)

\* Every accepted request is called back unless the program ends first: the
\* timer chain, with its back-off and its failures, does not lose the thread.
Completion ==
  \A r \in Requests :
    result[r] = "accepted" ~> result[r] = "answered" \/ loop \in {"dead", "stopped"}

\* The manager does not stay occupied for ever.
EventuallyFree ==
  fState # NotStarted ~> fState = NotStarted \/ loop \in {"dead", "stopped"}

=============================================================================
