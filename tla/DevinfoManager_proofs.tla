------------------------ MODULE DevinfoManager_proofs ------------------------
(***************************************************************************)
(* What holds of the manager for every report, port and set of requests.   *)
(*                                                                         *)
(* The proofs follow the layers of the argument: types; the one wake-up of *)
(* a collection; that the manager implements the abstract service; the one *)
(* shell process of a collection that no error has disturbed, and what     *)
(* late events of other processes can reach when one has; and what this    *)
(* means for the report.                                                   *)
(***************************************************************************)
EXTENDS DevinfoManager, Integers, TLAPS

\* A getter answers and leaves a status behind, whatever its kind.
LEMMA OutcomesType ==
  ASSUME NEW kind \in GetterKinds
  PROVE  Outcomes(kind) \subseteq OutcomeType
<1> USE DEF OutcomeType, Outcome, Answers, Statuses
<1>1. /\ FixedOutcomes \subseteq OutcomeType
      /\ NoEntryOutcomes \subseteq OutcomeType
  BY DEF FixedOutcomes, NoEntryOutcomes
<1>2. /\ ProbeOutcomes \subseteq OutcomeType
      /\ InterfacesOutcomes \subseteq OutcomeType
      /\ ObjectOutcomes \subseteq OutcomeType
      /\ FirmwareFileOutcomes \subseteq OutcomeType
  BY <1>1 DEF ProbeOutcomes, InterfacesOutcomes, ObjectOutcomes,
              FirmwareFileOutcomes
<1>3. /\ SimFileOutcomes \subseteq OutcomeType
      /\ ShellOutcomes \subseteq OutcomeType
  BY DEF SimFileOutcomes, ShellOutcomes, Launched
<1>4. QED
  BY <1>1, <1>2, <1>3 DEF Outcomes, GetterKinds

\* What the getter of an item does is one of the outcomes of its type.
LEMMA OutcomesOfItem ==
  ASSUME NEW i \in Items
  PROVE  Outcomes(Getter[i]) \subseteq OutcomeType
BY OutcomesType, GetterAssumption

\* Storing an answer for a request keeps an entry a set of origins, and a
\* non-empty entry stays non-empty.
LEMMA StoredType ==
  ASSUME fRepository \in Repository, NEW i \in Items, NEW r \in Requests,
         NEW answer
  PROVE  /\ Stored(i, answer, r) \subseteq Origins
         /\ Stored(i, answer, r) \subseteq fRepository[i] \cup {"blank", r}
         /\ fRepository[i] # {} => Stored(i, answer, r) # {}
<1>1. fRepository[i] \subseteq Origins
  BY DEF Repository
<1>2. Policy[i] \in {"keepPreset", "plain", "blankOut", "list"}
  BY PolicyAssumption
<1>3. QED
  BY <1>1, <1>2 DEF Stored, KeepPreset, BlankOut, AddToList, Plain, Origins

\* The states: not started, one per item, done.
LEMMA States ==
  /\ LastItem \in Nat /\ LastItem > 0
  /\ NotStarted \in 0 .. Done /\ Done \in 0 .. Done
  /\ NotStarted # Done
  /\ NotStarted \notin Items /\ Done \notin Items
  /\ NotStarted + 1 \in Items
  /\ \A i \in Items : i \in 0 .. Done /\ i + 1 \in 0 .. Done /\ i + 1 # NotStarted
  /\ 0 .. Done = Items \cup {NotStarted, Done}
BY LastItemAssumption DEF NotStarted, Done, Items

\* The arithmetic of the polling interval stays within its width.
LEMMA IntervalType ==
  /\ 0 \in Intervals
  /\ fStateMonitorInterval \in Intervals => NextInterval \in Intervals
<1>1. IntervalModulus \in Nat /\ IntervalModulus > 1
  BY IntervalModulusAssumption
<1>2. 0 \in Intervals /\ 1 \in Intervals
  BY <1>1 DEF Intervals
<1>3. ASSUME fStateMonitorInterval \in Intervals
      PROVE  (fStateMonitorInterval * 2) % IntervalModulus \in Intervals
  <2>1. fStateMonitorInterval * 2 \in Nat
    BY <1>1, <1>3 DEF Intervals
  <2>2. QED
    BY <1>1, <2>1 DEF Intervals
<1>4. QED
  BY <1>2, <1>3 DEF NextInterval

-----------------------------------------------------------------------------
(* Types.                                                                  *)

\* The invariant behind the types: a collection has a requester.
TypeInv ==
  /\ TypeOK
  /\ fState # NotStarted => fCollectCallbackUserData \in Requests

LEMMA TypeInit == Init => TypeInv
<1> SUFFICES ASSUME Init PROVE TypeInv
  OBVIOUS
<1>1. EmptyRepository \in Repository /\ PresetRepository \in Repository
  BY DEF EmptyRepository, PresetRepository, Repository, Origins
<1>2. CollectorTypeOK
  BY DEF Init, CollectorInit, CollectorTypeOK
<1>3. QED
  BY <1>1, <1>2, States, IntervalType DEF Init, TypeInv, TypeOK, Results

\* A reset repository is a repository.
LEMMA ResetType == Reset => fRepository' \in Repository
BY DEF Reset, EmptyRepository, PresetRepository, Repository, Origins

\* A stored answer leaves a repository.
LEMMA StoreType ==
  ASSUME fRepository \in Repository, NEW i \in Items, NEW r \in Requests,
         NEW answer, Store(i, answer, r)
  PROVE  fRepository' \in Repository
<1>1. Stored(i, answer, r) \subseteq Origins
  BY StoredType
<1>2. QED
  BY <1>1 DEF Store, Repository

\* So does an answer delivered by a process.
LEMMA DeliverType ==
  ASSUME TypeInv, NEW p \in Process, NEW answer, Deliver(p, answer)
  PROVE  fRepository' \in Repository
<1>1. fRepository \in Repository /\ fOnGetCallback \in Items \cup {NoItem}
  BY DEF TypeInv, TypeOK, CollectorTypeOK
<1>2. p.request \in Requests
  BY DEF Process
<1>3. CASE fOnGetCallback # NoItem /\ Accepts(fOnGetCallback, p)
  BY <1>1, <1>2, <1>3, StoreType DEF Deliver
<1>4. CASE ~(fOnGetCallback # NoItem /\ Accepts(fOnGetCallback, p))
  BY <1>1, <1>4 DEF Deliver
<1>5. QED
  BY <1>3, <1>4

\* Telling a request something leaves the results well typed.
LEMMA TellType ==
  ASSUME result \in [Requests -> Results], NEW r, NEW what \in Results, Tell(r, what)
  PROVE  result' \in [Requests -> Results]
BY DEF Tell

LEMMA TypeStep == TypeInv /\ [Next]_vars => TypeInv'
<1> SUFFICES ASSUME TypeInv, [Next]_vars PROVE TypeInv'
  OBVIOUS
<1> USE DEF TypeInv, TypeOK, CollectorTypeOK
<1>1. ASSUME NEW r \in Requests, CollectRefused(r) PROVE TypeInv'
  BY <1>1, TellType DEF CollectRefused, collectorVars, Results
<1>2. ASSUME NEW r \in Requests, BeginCollection(r)
      PROVE  /\ fState' = NotStarted + 1
             /\ fCollectCallbackUserData' = r
             /\ fRepository' \in Repository
             /\ CollectorTypeOK'
             /\ UNCHANGED <<fStateMonitorInterval, firing>>
  BY <1>2, ResetType
     DEF BeginCollection, EnterNextState, Initialize, Statuses, NotStarted
<1>3. ASSUME NEW r \in Requests, CollectAccepted(r) PROVE TypeInv'
  <2>1. BeginCollection(r) /\ result' \in [Requests -> Results]
    BY <1>3, TellType DEF CollectAccepted, Results
  <2>2. timers' \subseteq Intervals /\ UNCHANGED loop
    BY <1>3 DEF CollectAccepted
  <2>3. QED
    BY <1>2, <2>1, <2>2, States
<1>4. ASSUME NEW r \in Requests, CollectTimerFails(r) PROVE TypeInv'
  <2>1. BeginCollection(r) /\ result' \in [Requests -> Results]
    BY <1>4, TellType DEF CollectTimerFails, Results
  <2>2. UNCHANGED timers /\ loop' \in {"idle", "dead"}
    BY <1>4 DEF CollectTimerFails
  <2>3. QED
    BY <1>2, <2>1, <2>2, States
<1>5. ASSUME NEW t \in Intervals, TimerFires(t) PROVE TypeInv'
  BY <1>5 DEF TimerFires, collectorVars
<1>6. ASSUME NEW o \in OutcomeType, Execute(o) PROVE TypeInv'
  <2>1. fState \in Items /\ fCollectCallbackUserData \in Requests
    BY <1>6, States DEF Execute, Collecting
  <2>2. fRepository' \in Repository
    BY <1>6, <2>1, StoreType DEF Execute
  <2>3. processes' \subseteq Process
    <3>1. [item |-> fState, request |-> fCollectCallbackUserData] \in Process
      BY <2>1 DEF Process
    <3>2. QED
      BY <1>6, <3>1 DEF Execute, Get, Launch
  <2>4. CollectorTypeOK'
    BY <1>6, <2>1, <2>3 DEF Execute, Get, OutcomeType
  <2>5. QED
    BY <1>6, <2>2, <2>4 DEF Execute
<1>7. CASE Crash
  BY <1>7 DEF Crash, collectorVars
<1>8. CASE NextItem
  <2>1. fState \in Items
    BY <1>8 DEF NextItem, Collecting
  <2>2. fState' \in 0 .. Done /\ fCollectCallbackUserData \in Requests
    BY <1>8, <2>1, States DEF NextItem, EnterNextState
  <2>3. QED
    BY <1>8, <2>2 DEF NextItem, EnterNextState, Initialize, Statuses
<1>9. CASE PollAgain
  BY <1>9, IntervalType DEF PollAgain, InProgress, collectorVars
<1>10. CASE PollTimerFails
  BY <1>10, IntervalType DEF PollTimerFails, InProgress, collectorVars
<1>11. CASE Finish
  <2>1. result' \in [Requests -> Results]
    BY <1>11, TellType DEF Finish, Results
  <2>2. QED
    BY <1>11, <2>1, States, IntervalType DEF Finish, collectorVars
<1>12. ASSUME NEW p \in Process, ProcessReads(p) PROVE TypeInv'
  BY <1>12, DeliverType DEF ProcessReads, ShellEvent, OnRead, collectorVars
<1>13. ASSUME NEW p \in Process, ProcessFails(p) PROVE TypeInv'
  BY <1>13, DeliverType DEF ProcessFails, ShellEvent, OnError, Statuses
<1>14. ASSUME NEW p \in Process, ProcessCompletes(p) PROVE TypeInv'
  BY <1>14 DEF ProcessCompletes, ShellEvent, OnComplete, Statuses
<1>15. CASE Finalize
  <2>1. EmptyRepository \in Repository
    BY DEF EmptyRepository, Repository
  <2>2. QED
    BY <1>15, <2>1, States, IntervalType DEF Finalize, collectorVars
<1>16. CASE UNCHANGED vars
  BY <1>16 DEF vars, collectorVars, managerVars
<1>17. QED
  BY <1>1, <1>3, <1>4, <1>5, <1>6, <1>7, <1>8, <1>9, <1>10, <1>11, <1>12,
     <1>13, <1>14, <1>15, <1>16 DEF Next, Collect, Progress, ItemStep,
        ProcessEvent

LEMMA TypeInvariant == Spec => []TypeInv
BY TypeInit, TypeStep, PTL DEF Spec

\* Every variable stays within its type: the state within the enumeration,
\* the polling interval within its width, only origins in the repository.
THEOREM TypeCorrect == Spec => []TypeOK
BY TypeInvariant, PTL DEF TypeInv

-----------------------------------------------------------------------------
(* One request is being served, and one timer is armed for it.             *)

\* The request of the collection in progress has been accepted, or its start
\* failed; a timer callback only runs for an accepted one.
ServingInv ==
  /\ fState # NotStarted =>
       result[fCollectCallbackUserData] \in {"accepted", "failed"}
  /\ loop = "progress" =>
       fState # NotStarted /\ result[fCollectCallbackUserData] = "accepted"

\* Between two collections the back-off is forgotten.
BackOffInv == fState = NotStarted => fStateMonitorInterval = 0

WakeUpInv == TypeInv /\ ServingInv /\ OneWakeUp /\ BackOffInv

LEMMA WakeUpInit == Init => WakeUpInv
BY TypeInit DEF Init, WakeUpInv, ServingInv, OneWakeUp, BackOffInv

LEMMA WakeUpStep == WakeUpInv /\ [Next]_vars => WakeUpInv'
<1> SUFFICES ASSUME WakeUpInv, [Next]_vars PROVE WakeUpInv'
  OBVIOUS
<1> DEFINE Inv == ServingInv /\ OneWakeUp /\ BackOffInv
<1> TypeInv'
  BY TypeStep DEF WakeUpInv
<1> SUFFICES Inv'
  BY DEF WakeUpInv
<1>0. /\ TypeInv /\ ServingInv /\ OneWakeUp /\ BackOffInv
      /\ result \in [Requests -> Results]
      /\ fStateMonitorInterval \in Intervals
      /\ fState # NotStarted => fCollectCallbackUserData \in Requests
  BY DEF WakeUpInv, TypeInv, TypeOK
<1> USE DEF ServingInv, OneWakeUp, BackOffInv
<1>1. ASSUME NEW r \in Requests, CollectRefused(r) PROVE Inv'
  <2>1. r # fCollectCallbackUserData
    BY <1>0, <1>1 DEF CollectRefused
  <2>2. UNCHANGED <<loop, fState, timers, fStateMonitorInterval,
                    fCollectCallbackUserData>>
    BY <1>1 DEF CollectRefused
  <2>3. result'[fCollectCallbackUserData] = result[fCollectCallbackUserData]
    BY <1>0, <1>1, <2>1 DEF CollectRefused, Tell
  <2>4. QED
    BY <1>0, <2>2, <2>3
<1>2. ASSUME NEW r \in Requests, BeginCollection(r)
      PROVE  /\ timers = {} /\ loop = "idle" /\ fStateMonitorInterval = 0
             /\ fState' # NotStarted /\ fCollectCallbackUserData' = r
             /\ fState = NotStarted
  BY <1>0, <1>2, States DEF BeginCollection, EnterNextState
<1>3. ASSUME NEW r \in Requests, CollectAccepted(r) PROVE Inv'
  <2>1. BeginCollection(r) /\ UNCHANGED loop
    BY <1>3 DEF CollectAccepted
  <2>2. timers' = {fStateMonitorInterval} /\ result'[r] = "accepted"
    BY <1>0, <1>2, <1>3, <2>1 DEF CollectAccepted, Tell
  <2>3. QED
    BY <1>0, <1>2, <2>1, <2>2
<1>4. ASSUME NEW r \in Requests, CollectTimerFails(r) PROVE Inv'
  <2>1. BeginCollection(r) /\ loop' \in {"idle", "dead"} /\ timers' = timers
    BY <1>4 DEF CollectTimerFails
  <2>2. result'[r] = "failed"
    BY <1>0, <1>4 DEF CollectTimerFails, Tell
  <2>3. QED
    BY <1>2, <2>1, <2>2
<1>5. ASSUME NEW t \in Intervals, TimerFires(t) PROVE Inv'
  BY <1>0, <1>5 DEF TimerFires
<1>6. ASSUME NEW o \in OutcomeType, Execute(o) PROVE Inv'
  BY <1>0, <1>6 DEF Execute
<1>7. CASE Crash
  BY <1>0, <1>7 DEF Crash
<1>8. CASE NextItem
  <2>1. fState \in Items
    BY <1>8 DEF NextItem, Collecting
  <2>2. fState' # NotStarted
    BY <1>8, <2>1, States DEF NextItem, EnterNextState
  <2>3. QED
    BY <1>0, <1>8, <2>2 DEF NextItem, Collecting
<1>9. ASSUME InProgress
      PROVE  /\ timers = {} /\ fState # NotStarted /\ UNCHANGED fState
             /\ result'[fCollectCallbackUserData'] = "accepted"
             /\ fStateMonitorInterval' \in Intervals
  BY <1>0, <1>9, IntervalType DEF InProgress, Collecting
<1>10. CASE PollAgain
  BY <1>9, <1>10 DEF PollAgain
<1>11. CASE PollTimerFails
  <2>1. firing \in Intervals
    BY <1>0 DEF TypeInv, TypeOK
  <2>2. QED
    BY <1>9, <1>11, <2>1 DEF PollTimerFails
<1>12. CASE Finish
  BY <1>0, <1>12 DEF Finish
<1>13. ASSUME ShellEvent PROVE Inv'
  BY <1>0, <1>13 DEF ShellEvent
<1>14. CASE Finalize
  BY <1>14 DEF Finalize
<1>15. CASE UNCHANGED vars
  BY <1>0, <1>15 DEF vars, managerVars
<1>16. QED
  BY <1>1, <1>3, <1>4, <1>5, <1>6, <1>7, <1>8, <1>10, <1>11, <1>12, <1>13,
     <1>14, <1>15 DEF Next, Collect, Progress, ItemStep, ProcessReads,
        ProcessFails, ProcessCompletes, ProcessEvent

LEMMA WakeUpInvariant == Spec => []WakeUpInv
BY WakeUpInit, WakeUpStep, PTL DEF Spec

\* A collection in progress has exactly one armed timer between two runs of
\* the timer callback, even if the runtime refuses to arm one; an idle manager
\* has none.
THEOREM OneWakeUpCorrect == Spec => []OneWakeUp
BY WakeUpInvariant, PTL DEF WakeUpInv

\* The first step of a collection is never delayed by an earlier back-off.
THEOREM BackOffRestartsCorrect == Spec => BackOffRestarts
<1>1. ASSUME WakeUpInv, [Next]_vars, fState = NotStarted, fState' # NotStarted
      PROVE  timers' \subseteq {0}
  <2>1. PICK r \in Requests : CollectAccepted(r) \/ CollectTimerFails(r)
    BY <1>1 DEF Next, Collect, Progress, ItemStep, CollectRefused, TimerFires,
       Execute, Crash, NextItem, Collecting, PollAgain, PollTimerFails,
       InProgress, Finish, ProcessReads, ProcessFails, ProcessCompletes,
       ShellEvent, Finalize, vars, managerVars, WakeUpInv, ServingInv,
       ProcessEvent
  <2>2. timers = {} /\ fStateMonitorInterval = 0
    BY <1>1, <2>1 DEF CollectAccepted, CollectTimerFails, BeginCollection,
       WakeUpInv, OneWakeUp, BackOffInv
  <2>3. QED
    BY <2>1, <2>2 DEF CollectAccepted, CollectTimerFails
<1>2. QED
  BY <1>1, WakeUpInvariant, PTL DEF Spec, BackOffRestarts

-----------------------------------------------------------------------------
(* A timer callback ends.                                                  *)

\* No getter leaves the collector as the manager initialised it.
LEMMA GetterActs ==
  ASSUME NEW i \in Items, NEW o \in Outcomes(Getter[i])
  PROVE  o.status # "initialized"
<1>1. Getter[i] \in GetterKinds
  BY GetterAssumption
<1> USE DEF Outcome
<1>2. /\ \A u \in FixedOutcomes : u.status # "initialized"
      /\ \A u \in NoEntryOutcomes : u.status # "initialized"
      /\ \A u \in SimFileOutcomes : u.status # "initialized"
      /\ \A u \in ShellOutcomes : u.status # "initialized"
  BY DEF FixedOutcomes, NoEntryOutcomes, SimFileOutcomes, ShellOutcomes, Launched
<1>3. /\ \A u \in ProbeOutcomes : u.status # "initialized"
      /\ \A u \in InterfacesOutcomes : u.status # "initialized"
      /\ \A u \in ObjectOutcomes : u.status # "initialized"
      /\ \A u \in FirmwareFileOutcomes : u.status # "initialized"
  BY <1>2 DEF ProbeOutcomes, InterfacesOutcomes, ObjectOutcomes,
     FirmwareFileOutcomes
<1>4. QED
  BY <1>1, <1>2, <1>3 DEF Outcomes, GetterKinds

\* Twice the distance to the state Done, plus one or not, is a natural number.
LEMMA Distance ==
  ASSUME NEW n \in 0 .. Done
  PROVE  2 * (Done - n) + 1 \in Nat /\ 2 * (Done - n) + 0 \in Nat
<1>1. LastItem \in Nat /\ n \in Int /\ 0 <= n /\ n <= LastItem + 1
  BY LastItemAssumption DEF Done
<1>2. 2 * (LastItem + 1 - n) \in Int /\ 2 * (LastItem + 1 - n) >= 0
  BY <1>1
<1>3. QED
  BY <1>1, <1>2 DEF Done

\* Every step that a timer callback goes on after brings its end nearer,
\* whatever the getters answer: TDEVINFOManager_Progress calls itself less than
\* twice per item that is left.
THEOREM RunEndsCorrect == Spec => RunEnds
<1>1. ASSUME TypeInv, TypeInv', [Next]_vars, vars' # vars,
             loop = "progress", loop' = "progress"
      PROVE  StepsLeft' < StepsLeft
  <2>0. fState \in 0 .. Done /\ Done \in Nat
    BY <1>1, LastItemAssumption DEF TypeInv, TypeOK, Done
  <2>1. NextItem \/ \E o \in OutcomeType : Execute(o)
    BY <1>1 DEF Next, Collect, CollectRefused, CollectAccepted,
       CollectTimerFails, BeginCollection, TimerFires, Progress, ItemStep,
       Crash, PollAgain, PollTimerFails, Finish, ProcessEvent, ProcessReads,
       ProcessFails, ProcessCompletes, ShellEvent, Finalize
  <2>2. CASE NextItem
    <3>1. /\ fState' = fState + 1 /\ fStatus' = "initialized"
          /\ fStatus # "initialized"
      BY <2>2 DEF NextItem, EnterNextState, Initialize
    <3>2. QED
      BY <2>0, <3>1 DEF StepsLeft
  <2>3. ASSUME NEW o \in OutcomeType, Execute(o) PROVE StepsLeft' < StepsLeft
    <3>1. /\ fState \in Items /\ o \in Outcomes(Getter[fState])
          /\ fStatus = "initialized" /\ fStatus' = o.status /\ fState' = fState
      BY <2>3 DEF Execute, Collecting, Get
    <3>2. fStatus' # "initialized"
      BY <3>1, GetterActs
    <3>3. QED
      BY <2>0, <3>1, <3>2 DEF StepsLeft
  <2>4. QED
    BY <2>1, <2>2, <2>3
<1>2. ASSUME TypeInv, TypeInv' PROVE StepsLeft \in Nat /\ StepsLeft' \in Nat
  BY <1>2, Distance DEF TypeInv, TypeOK, StepsLeft
<1>3. TypeInv /\ TypeInv' /\ [Next]_vars =>
        [loop = "progress" /\ loop' = "progress" =>
           StepsLeft \in Nat /\ StepsLeft' \in Nat /\ StepsLeft' < StepsLeft]_vars
  BY <1>1, <1>2
<1>4. QED
  BY <1>3, TypeInvariant, PTL DEF Spec, RunEnds

-----------------------------------------------------------------------------
(* The manager implements the service.                                     *)

\* Nobody but the request being served is waiting for the manager: an earlier
\* one has been called back, and none whose start failed is left behind.
ServedAlone ==
  \A r \in Requests :
    result[r] \in {"accepted", "failed"} /\ loop # "stopped" =>
      fState # NotStarted /\ r = fCollectCallbackUserData

\* What the event loop does for the manager between the beginning and the end
\* of a collection tells nobody anything.
LEMMA QuietManager ==
  ASSUME \/ \E t \in Intervals : TimerFires(t)
         \/ ItemStep
         \/ Crash
         \/ \E p \in Process : ProcessEvent(p)
  PROVE  /\ UNCHANGED <<result, fCollectCallbackUserData>>
         /\ fState = NotStarted <=> fState' = NotStarted
         /\ loop # "stopped" /\ loop' # "stopped"
<1>1. ASSUME NEW t \in Intervals, TimerFires(t)
      PROVE  /\ UNCHANGED <<result, fCollectCallbackUserData, fState>>
             /\ loop # "stopped" /\ loop' # "stopped"
  BY <1>1 DEF TimerFires
<1>2. ASSUME NEW o \in OutcomeType, Execute(o)
      PROVE  /\ UNCHANGED <<result, fCollectCallbackUserData, fState>>
             /\ loop # "stopped" /\ loop' # "stopped"
  BY <1>2 DEF Execute, Collecting
<1>3. ASSUME NextItem
      PROVE  /\ UNCHANGED <<result, fCollectCallbackUserData>>
             /\ fState # NotStarted /\ fState' # NotStarted
             /\ loop # "stopped" /\ loop' # "stopped"
  BY <1>3, States DEF NextItem, Collecting, EnterNextState
<1>4. ASSUME PollAgain \/ PollTimerFails \/ Crash
      PROVE  /\ UNCHANGED <<result, fCollectCallbackUserData, fState>>
             /\ loop # "stopped" /\ loop' # "stopped"
  BY <1>4 DEF PollAgain, PollTimerFails, InProgress, Collecting, Crash
<1>5. ASSUME NEW p \in Process, ProcessEvent(p)
      PROVE  /\ UNCHANGED <<result, fCollectCallbackUserData, fState>>
             /\ loop # "stopped" /\ loop' # "stopped"
  BY <1>5 DEF ProcessEvent, ProcessReads, ProcessFails, ProcessCompletes,
     ShellEvent
<1>6. QED
  BY <1>1, <1>2, <1>3, <1>4, <1>5 DEF ItemStep

LEMMA ServedAloneStep == WakeUpInv /\ ServedAlone /\ [Next]_vars => ServedAlone'
<1> SUFFICES ASSUME WakeUpInv, ServedAlone, [Next]_vars PROVE ServedAlone'
  OBVIOUS
<1>0. result \in [Requests -> Results]
  BY DEF WakeUpInv, TypeInv, TypeOK
<1> USE DEF ServedAlone
<1>1. ASSUME NEW r \in Requests, CollectRefused(r) PROVE ServedAlone'
  BY <1>0, <1>1 DEF CollectRefused, Tell
<1>2. ASSUME NEW r \in Requests, CollectAccepted(r) \/ CollectTimerFails(r)
      PROVE  ServedAlone'
  <2>1. /\ loop = "idle" /\ fState = NotStarted /\ fState' # NotStarted
        /\ fCollectCallbackUserData' = r
        /\ \A q \in Requests \ {r} : result'[q] = result[q]
    BY <1>0, <1>2, States DEF CollectAccepted, CollectTimerFails,
       BeginCollection, EnterNextState, Tell
  <2>2. QED
    BY <2>1
<1>3. CASE Finish
  BY <1>0, <1>3 DEF Finish, Tell, Results
<1>4. CASE \/ \E t \in Intervals : TimerFires(t)
           \/ ItemStep
           \/ Crash
           \/ \E p \in Process : ProcessEvent(p)
  BY <1>4, QuietManager
<1>5. CASE Finalize
  BY <1>5 DEF Finalize
<1>6. CASE UNCHANGED vars
  BY <1>6 DEF vars, managerVars
<1>7. QED
  BY <1>1, <1>2, <1>3, <1>4, <1>5, <1>6 DEF Next, Collect, Progress

LEMMA ServedAloneInvariant == Spec => []ServedAlone
<1>1. Init => ServedAlone
  BY DEF Init, ServedAlone
<1>2. QED
  BY <1>1, ServedAloneStep, WakeUpInvariant, PTL DEF Spec

LEMMA ServiceInit == Init => Service!Init
BY DEF Init, Service!Init

LEMMA ServiceStep == WakeUpInv /\ [Next]_vars => [Service!Next]_Service!vars
<1> SUFFICES ASSUME WakeUpInv, [Next]_vars
             PROVE  Service!Next \/ UNCHANGED Service!vars
  OBVIOUS
<1> DEFINE serving == IF fState = NotStarted THEN NoRequest
                      ELSE fCollectCallbackUserData
<1>0. /\ TypeInv /\ ServingInv
      /\ fState # NotStarted =>
           fCollectCallbackUserData \in Requests /\ serving # NoRequest
  BY NoRequestAssumption DEF WakeUpInv, TypeInv
<1> USE DEF Service!Next, Service!vars
<1>1. ASSUME NEW r \in Requests, CollectRefused(r) PROVE Service!Refuse(r)
  BY <1>0, <1>1 DEF CollectRefused, Service!Refuse, Tell, Service!Tell
<1>2. ASSUME NEW r \in Requests, BeginCollection(r)
      PROVE  /\ loop = "idle" /\ fState = NotStarted /\ result[r] = "unsent"
             /\ fState' # NotStarted /\ fCollectCallbackUserData' = r
  BY <1>2, States DEF BeginCollection, EnterNextState
<1>3. ASSUME NEW r \in Requests, CollectAccepted(r) PROVE Service!Accept(r)
  BY <1>2, <1>3 DEF CollectAccepted, Service!Accept, Service!Begin, Tell,
                    Service!Tell
<1>4. ASSUME NEW r \in Requests, CollectTimerFails(r) PROVE Service!Break(r)
  BY <1>2, <1>4 DEF CollectTimerFails, Service!Break, Service!Begin, Tell,
                    Service!Tell
<1>5. ASSUME NEW t \in Intervals, TimerFires(t) PROVE UNCHANGED Service!vars
  BY <1>5 DEF TimerFires
<1>6. ASSUME NEW o \in OutcomeType, Execute(o) PROVE UNCHANGED Service!vars
  BY <1>6 DEF Execute
<1>7. CASE Crash
  BY <1>7 DEF Crash, Collecting
<1>8. CASE NextItem
  <2>1. fState # NotStarted /\ fState' # NotStarted
    BY <1>8, States DEF NextItem, Collecting, EnterNextState
  <2>2. QED
    BY <1>8, <2>1 DEF NextItem
<1>9. CASE PollAgain \/ PollTimerFails
  BY <1>9 DEF PollAgain, PollTimerFails, InProgress, Collecting
<1>10. CASE Finish
  <2>1. Service!Answer
    BY <1>0, <1>10, States DEF Finish, Service!Answer, Tell, Service!Tell,
                               ServingInv
  <2>2. QED
    BY <2>1
<1>11. ASSUME ShellEvent PROVE UNCHANGED Service!vars
  BY <1>11 DEF ShellEvent
<1>12. CASE Finalize
  <2>1. Service!Stop
    BY <1>12 DEF Finalize, Service!Stop
  <2>2. QED
    BY <2>1
<1>13. CASE UNCHANGED vars
  BY <1>13 DEF vars, managerVars
<1>14. QED
  BY <1>1, <1>3, <1>4, <1>5, <1>6, <1>7, <1>8, <1>9, <1>10, <1>11, <1>12,
     <1>13 DEF Next, Collect, Progress, ItemStep, ProcessReads, ProcessFails,
        ProcessCompletes, ProcessEvent

\* The manager serves the requests one at a time, refuses them only while it
\* is busy, and calls back the request it accepted, once and no other.
THEOREM ImplementsService == Spec => ServiceSpec
BY ServiceInit, ServiceStep, WakeUpInvariant, PTL
   DEF Spec, ServiceSpec, Service!Spec

-----------------------------------------------------------------------------
(* One shell process at a time, unless there has been an error.            *)

\* Whatever getter left the status COLLECTING launched a process for it.
LaunchingGetters == \A i \in Items : Getter[i] # "firmwareFile"

\* A getter of such a port is collecting only if it has been launched.
LEMMA CollectingIsLaunched ==
  ASSUME LaunchingGetters, NEW i \in Items, NEW o \in Outcomes(Getter[i]),
         o.status = "collecting"
  PROVE  o = Launched
<1>1. Getter[i] \in GetterKinds \ {"firmwareFile"}
  BY GetterAssumption DEF LaunchingGetters
<1> USE DEF Outcome
<1>2. /\ o \notin FixedOutcomes /\ o \notin NoEntryOutcomes
      /\ o \notin ObjectOutcomes
  BY DEF FixedOutcomes, NoEntryOutcomes, ObjectOutcomes
<1>3. o \notin ProbeOutcomes /\ o \notin InterfacesOutcomes
  BY <1>2 DEF ProbeOutcomes, InterfacesOutcomes
<1>4. o \notin SimFileOutcomes
  BY DEF SimFileOutcomes
<1>5. o \in ShellOutcomes => o = Launched
  BY DEF ShellOutcomes
<1>6. QED
  BY <1>1, <1>2, <1>3, <1>4, <1>5 DEF Outcomes, GetterKinds

\* Only a shell getter launches a process.
LEMMA LaunchedByShell ==
  ASSUME NEW i \in Items, Launched \in Outcomes(Getter[i])
  PROVE  Getter[i] = "shell"
<1>1. Getter[i] \in GetterKinds
  BY GetterAssumption
<1> USE DEF Launched, Outcome
<1>2. /\ Launched \notin FixedOutcomes /\ Launched \notin NoEntryOutcomes
      /\ Launched \notin ObjectOutcomes
  BY DEF FixedOutcomes, NoEntryOutcomes, ObjectOutcomes
<1>3. /\ Launched \notin ProbeOutcomes /\ Launched \notin InterfacesOutcomes
      /\ Launched \notin FirmwareFileOutcomes
  BY <1>2 DEF ProbeOutcomes, InterfacesOutcomes, FirmwareFileOutcomes
<1>4. Launched \notin SimFileOutcomes
  BY DEF SimFileOutcomes
<1>5. QED
  BY <1>1, <1>2, <1>3, <1>4 DEF Outcomes, GetterKinds

LEMMA CollectingStep ==
  LaunchingGetters /\ TypeInv /\ CollectingHasProcess /\ [Next]_vars
    => CollectingHasProcess'
<1> SUFFICES ASSUME LaunchingGetters, TypeInv, CollectingHasProcess,
                    [Next]_vars
             PROVE  CollectingHasProcess'
  OBVIOUS
<1> USE DEF CollectingHasProcess, OwnProcess
<1>1. ASSUME Initialize PROVE CollectingHasProcess'
  BY <1>1 DEF Initialize
<1>2. ASSUME UNCHANGED <<collectorVars, fState, fCollectCallbackUserData>>
      PROVE  CollectingHasProcess'
  BY <1>2 DEF collectorVars
<1>3. ASSUME NEW o \in OutcomeType, Execute(o) PROVE CollectingHasProcess'
  <2>1. /\ fState \in Items /\ o \in Outcomes(Getter[fState])
        /\ UNCHANGED <<fState, fCollectCallbackUserData>>
    BY <1>3 DEF Execute, Collecting, Get
  <2>2. CASE o.status = "collecting"
    <3>1. o = Launched /\ Getter[fState] = "shell"
      BY <2>1, <2>2, CollectingIsLaunched, LaunchedByShell
    <3>2. QED
      BY <1>3, <2>1, <3>1 DEF Execute, Get, Launch
  <2>3. CASE o.status # "collecting"
    BY <1>3, <2>3 DEF Execute, Get
  <2>4. QED
    BY <2>2, <2>3
<1>4. ASSUME NEW p \in Process,
             ProcessReads(p) \/ ProcessFails(p) \/ ProcessCompletes(p)
      PROVE  CollectingHasProcess'
  BY <1>2, <1>4 DEF ProcessReads, ProcessFails, ProcessCompletes, ShellEvent,
     OnRead, OnError, OnComplete
<1>5. CASE Finish \/ Finalize
  BY <1>5, States DEF Finish, Finalize
<1>6. QED
  BY <1>1, <1>2, <1>3, <1>4, <1>5 DEF Next, Collect, CollectRefused,
     CollectAccepted, CollectTimerFails, BeginCollection, EnterNextState,
     TimerFires, Progress, ItemStep, Crash, NextItem, PollAgain,
     PollTimerFails, InProgress, Finish, vars, managerVars, ProcessEvent

\* On a port without the Armadillo firmware getter the manager never polls for
\* an item that no shell process is collecting, whatever processes went on after
\* an error.
THEOREM CollectingHasProcessCorrect ==
  ASSUME LaunchingGetters
  PROVE  Spec => []CollectingHasProcess
<1>1. Init => CollectingHasProcess
  BY States DEF Init, CollectingHasProcess
<1>2. TypeInv /\ CollectingHasProcess /\ [Next]_vars => CollectingHasProcess'
  BY CollectingStep
<1>3. QED
  BY <1>1, <1>2, TypeInvariant, PTL DEF Spec

\* The only process there is, is the one of the item being collected, unless
\* the collection has been disturbed.
SoleProcess ==
  loop # "stopped" =>
    \/ disturbed
    \/ \A p \in processes :
         fState \in Items /\ fStatus = "collecting" /\ p = OwnProcess

LEMMA SoleProcessStep == TypeInv /\ SoleProcess /\ [Next]_vars => SoleProcess'
<1> SUFFICES ASSUME TypeInv, SoleProcess, [Next]_vars PROVE SoleProcess'
  OBVIOUS
<1> USE DEF SoleProcess, OwnProcess
<1>1. ASSUME processes = {} \/ disturbed, UNCHANGED <<processes, disturbed>>
      PROVE  SoleProcess'
  BY <1>1
<1>2. ASSUME UNCHANGED <<collectorVars, fState, fCollectCallbackUserData>>,
             loop # "stopped"
      PROVE  SoleProcess'
  BY <1>2 DEF collectorVars
<1>3. ASSUME NEW r \in Requests, CollectAccepted(r) \/ CollectTimerFails(r)
      PROVE  SoleProcess'
  BY <1>3 DEF CollectAccepted, CollectTimerFails, BeginCollection
<1>4. ASSUME NEW o \in OutcomeType, Execute(o), ~disturbed PROVE SoleProcess'
  <2>1. processes = {} /\ fState \in Items /\ o \in Outcomes(Getter[fState])
    BY <1>4 DEF Execute, Collecting, Get
  <2>2. UNCHANGED <<fState, fCollectCallbackUserData>> /\ fStatus' = o.status
    BY <1>4 DEF Execute, Get
  <2>3. processes' \subseteq {OwnProcess} /\ (processes' # {} => o = Launched)
    BY <1>4, <2>1 DEF Execute, Get, Launch
  <2>4. o = Launched => o.status = "collecting"
    BY DEF Launched, Outcome
  <2>5. QED
    BY <2>1, <2>2, <2>3, <2>4
<1>5. CASE NextItem \/ Finish
  <2>1. processes = {} \/ disturbed
    BY <1>5, States DEF NextItem, Finish, Collecting
  <2>2. UNCHANGED <<processes, disturbed>>
    BY <1>5 DEF NextItem, Finish, collectorVars
  <2>3. QED
    BY <1>1, <2>1, <2>2
<1>6. ASSUME NEW p \in Process, ProcessReads(p) PROVE SoleProcess'
  BY <1>2, <1>6 DEF ProcessReads, ShellEvent, OnRead
<1>7. ASSUME NEW p \in Process, ProcessFails(p) PROVE SoleProcess'
  BY <1>7 DEF ProcessFails, OnError
<1>8. ASSUME NEW p \in Process, ProcessCompletes(p), ~disturbed
      PROVE  SoleProcess'
  <2>1. p \in processes /\ processes' \subseteq processes \ {p} /\ loop # "stopped"
    BY <1>8 DEF ProcessCompletes, ShellEvent, OnComplete
  <2>2. processes' = {}
    BY <1>8, <2>1
  <2>3. QED
    BY <2>2
<1>9. ASSUME disturbed, UNCHANGED disturbed PROVE SoleProcess'
  BY <1>9
<1>10. CASE Finalize
  BY <1>10 DEF Finalize
<1>11. CASE UNCHANGED vars
  BY <1>11 DEF vars, collectorVars, managerVars
<1>12. QED
  BY <1>2, <1>3, <1>4, <1>5, <1>6, <1>7, <1>8, <1>9, <1>10, <1>11 DEF Next,
     Collect, CollectRefused, TimerFires, Progress, ItemStep, Crash, PollAgain,
     PollTimerFails, InProgress, Collecting, ProcessEvent, Execute, Get,
     ProcessCompletes, OnComplete

LEMMA SoleProcessInvariant == Spec => []SoleProcess
<1>1. Init => SoleProcess
  BY DEF Init, CollectorInit, SoleProcess
<1>2. QED
  BY <1>1, SoleProcessStep, TypeInvariant, PTL DEF Spec

\* The manager leaves an item whose own shell process can still call back only
\* in a collection that began with a process left over, or during which some
\* process has reported an error.
THEOREM NoItemLeftRunningCorrect == Spec => NoItemLeftRunning
<1>1. SoleProcess /\ [Next]_vars =>
        (LeavesItem => OwnProcess \notin processes \/ disturbed)
  <2> SUFFICES ASSUME SoleProcess, [Next]_vars, LeavesItem, ~disturbed
               PROVE  OwnProcess \notin processes
    OBVIOUS
  <2>1. NextItem
    BY States DEF LeavesItem, Next, Collect, CollectRefused, CollectAccepted,
       CollectTimerFails, BeginCollection, TimerFires, Progress, ItemStep,
       Execute, Crash, PollAgain, PollTimerFails, InProgress, Finish,
       ProcessReads, ProcessFails, ProcessCompletes, ShellEvent, Finalize,
       vars, managerVars, ProcessEvent
  <2>2. QED
    BY <2>1 DEF NextItem, Collecting, SoleProcess
<1>2. QED
  BY <1>1, SoleProcessInvariant, PTL DEF Spec, NoItemLeftRunning

-----------------------------------------------------------------------------
(* Where the events of shell processes can go.                             *)

\* While an item is being collected, the callback registered is its own if any;
\* the collector is collecting, and the event loop runs with a callback
\* registered, only where the manager has to wait; the only item whose getter
\* may not have run when the loop is idle is the first one.
AwaitedCallback ==
  /\ fState \in Items =>
       /\ fOnGetCallback \in {NoItem, fState}
       /\ fStatus = "collecting" => fState \in AwaitedItems
       /\ loop = "idle" /\ fOnGetCallback # NoItem => fState \in AwaitedItems
       /\ loop = "idle" /\ fStatus = "initialized" => fState = 1
  /\ fState = Done => fOnGetCallback = NoItem

LEMMA AwaitedCallbackStep == AwaitedCallback /\ [Next]_vars => AwaitedCallback'
<1> SUFFICES ASSUME AwaitedCallback, [Next]_vars PROVE AwaitedCallback'
  OBVIOUS
<1> USE DEF AwaitedCallback
<1>0. AwaitedItems' = AwaitedItems /\ \A i \in Items : i # Done /\ i # NotStarted
  BY States DEF AwaitedItems
<1>1. ASSUME Initialize, loop' # "idle" \/ fState' = 1 PROVE AwaitedCallback'
  BY <1>1 DEF Initialize
<1>2. ASSUME UNCHANGED <<collectorVars, fState>>, loop' # "idle" \/ UNCHANGED loop
      PROVE  AwaitedCallback'
  BY <1>0, <1>2 DEF collectorVars
<1>3. ASSUME NEW o \in OutcomeType, Execute(o) PROVE AwaitedCallback'
  BY <1>0, <1>3 DEF Execute, Collecting, Get, AwaitedItems
<1>4. CASE PollAgain \/ PollTimerFails
  BY <1>0, <1>4 DEF PollAgain, PollTimerFails, InProgress, Collecting, collectorVars
<1>5. CASE Finish \/ Finalize
  BY <1>5, States DEF Finish, Finalize
<1>6. ASSUME NEW p \in Process, ProcessEvent(p) PROVE AwaitedCallback'
  <2>1. fStatus' = fStatus \/ fStatus' \in {"abend", "completed"}
    BY <1>6 DEF ProcessEvent, ProcessReads, ProcessFails, ProcessCompletes,
       OnRead, OnError, OnComplete, collectorVars
  <2>2. UNCHANGED <<fOnGetCallback, fState, loop>>
    BY <1>6 DEF ProcessEvent, ProcessReads, ProcessFails, ProcessCompletes,
       ShellEvent, OnRead, OnError, OnComplete, collectorVars
  <2>3. QED
    BY <1>0, <2>1, <2>2
<1>7. ASSUME NEW r \in Requests, BeginCollection(r) PROVE AwaitedCallback'
  BY <1>1, <1>7 DEF BeginCollection, EnterNextState, NotStarted
<1>8. CASE NextItem
  BY <1>1, <1>8 DEF NextItem, Collecting, EnterNextState
<1>9. QED
  BY <1>2, <1>3, <1>4, <1>5, <1>6, <1>7, <1>8 DEF Next, Collect,
     CollectRefused, CollectAccepted, CollectTimerFails, TimerFires, Progress,
     ItemStep, Crash, vars, managerVars

LEMMA AwaitedCallbackInvariant == Spec => []AwaitedCallback
<1>1. Init => AwaitedCallback
  BY States DEF Init, AwaitedCallback
<1>2. QED
  BY <1>1, AwaitedCallbackStep, PTL DEF Spec

-----------------------------------------------------------------------------
(* The report belongs to the request it is made for.                       *)

\* While a collection is in progress, the repository holds presets, blanks and
\* values read for its request, but for the awaited items of one disturbed.
OwnRepository ==
  fState # NotStarted =>
    \A i \in Items :
      \/ fRepository[i] \subseteq {"preset", "blank", fCollectCallbackUserData}
      \/ disturbed /\ i \in AwaitedItems

\* Storing an answer obtained for the request being served keeps it so.
LEMMA StoreOwn ==
  ASSUME TypeInv, OwnRepository, fState # NotStarted,
         NEW i \in Items, NEW answer, Store(i, answer, fCollectCallbackUserData),
         UNCHANGED <<fState, fCollectCallbackUserData>>,
         disturbed => disturbed'
  PROVE  OwnRepository'
<1>1. /\ fRepository \in Repository
      /\ fCollectCallbackUserData \in Requests
  BY DEF TypeInv, TypeOK
<1>2. Stored(i, answer, fCollectCallbackUserData)
        \subseteq fRepository[i] \cup {"blank", fCollectCallbackUserData}
  BY <1>1, StoredType
<1>3. AwaitedItems' = AwaitedItems
  BY DEF AwaitedItems
<1>4. QED
  BY <1>1, <1>2, <1>3 DEF OwnRepository, Store, Repository

LEMMA OwnRepositoryStep ==
  TypeInv /\ SoleProcess /\ AwaitedCallback /\ OwnRepository /\ [Next]_vars
    => OwnRepository'
<1> SUFFICES ASSUME TypeInv, SoleProcess, AwaitedCallback, OwnRepository,
                    [Next]_vars
             PROVE  OwnRepository'
  OBVIOUS
<1>0. AwaitedItems' = AwaitedItems
  BY DEF AwaitedItems
<1>1. ASSUME NEW r \in Requests, CollectAccepted(r) \/ CollectTimerFails(r)
      PROVE  OwnRepository'
  <2>1. Reset
    BY <1>1 DEF CollectAccepted, CollectTimerFails, BeginCollection
  <2>2. \A i \in Items : fRepository'[i] \subseteq {"preset"}
    BY <2>1 DEF Reset, EmptyRepository, PresetRepository
  <2>3. QED
    BY <2>2 DEF OwnRepository
<1>2. ASSUME NEW o \in OutcomeType, Execute(o) PROVE OwnRepository'
  <2>1. fState \in Items /\ fState # NotStarted
    BY <1>2, States DEF Execute, Collecting
  <2>2. QED
    BY <1>2, <2>1, StoreOwn DEF Execute, Get
<1>3. ASSUME UNCHANGED <<fState, fCollectCallbackUserData, fRepository>>,
             disturbed => disturbed'
      PROVE  OwnRepository'
  BY <1>0, <1>3 DEF OwnRepository
<1>4. CASE NextItem
  <2>1. fState # NotStarted
    BY <1>4, States DEF NextItem, Collecting
  <2>2. QED
    BY <1>0, <1>4, <2>1 DEF NextItem, OwnRepository
<1>5. ASSUME NEW p \in Process, NEW answer, ShellEvent, p \in processes,
             Deliver(p, answer), disturbed => disturbed'
      PROVE  OwnRepository'
  <2>1. UNCHANGED <<fState, fCollectCallbackUserData>> /\ loop = "idle"
    BY <1>5 DEF ShellEvent
  <2>2. CASE fState # NotStarted /\ fOnGetCallback # NoItem
             /\ Accepts(fOnGetCallback, p)
    <3>1. fOnGetCallback \in Items
      BY <2>2 DEF TypeInv, TypeOK, CollectorTypeOK
    <3>2. Store(fOnGetCallback, answer, p.request)
      BY <1>5, <2>2 DEF Deliver
    <3>3. CASE ~disturbed
      <4>1. p.request = fCollectCallbackUserData
        BY <1>5, <3>3 DEF SoleProcess, OwnProcess, ShellEvent
      <4>2. QED
        BY <1>5, <2>1, <2>2, <3>1, <3>2, <4>1, StoreOwn
    <3>4. CASE disturbed
      <4>1. fState = Done \/ fState \in Items
        BY <2>2, States DEF TypeInv, TypeOK
      <4>2. CASE fState \in Items
        <5>1. fOnGetCallback = fState /\ fState \in AwaitedItems
          BY <2>1, <2>2, <4>2 DEF AwaitedCallback
        <5>2. \A i \in Items \ {fState} : fRepository'[i] = fRepository[i]
          BY <3>2, <5>1 DEF Store, TypeInv, TypeOK, Repository
        <5>3. QED
          BY <1>0, <1>5, <2>1, <3>4, <5>1, <5>2 DEF OwnRepository
      <4>3. CASE fState = Done
        BY <2>2, <4>3 DEF AwaitedCallback
      <4>4. QED
        BY <4>1, <4>2, <4>3
    <3>5. QED
      BY <3>3, <3>4
  <2>3. CASE fState = NotStarted
    BY <2>1, <2>3 DEF OwnRepository
  <2>4. CASE ~(fOnGetCallback # NoItem /\ Accepts(fOnGetCallback, p))
    BY <1>3, <1>5, <2>1, <2>4 DEF Deliver
  <2>5. QED
    BY <2>2, <2>3, <2>4
<1>6. ASSUME NEW p \in Process,
             ProcessReads(p) \/ ProcessFails(p) \/ ProcessCompletes(p)
      PROVE  OwnRepository'
  BY <1>3, <1>5, <1>6 DEF ProcessReads, ProcessFails, ProcessCompletes,
     ShellEvent, OnRead, OnError, OnComplete, collectorVars
<1>7. CASE Finish \/ Finalize
  BY <1>7 DEF Finish, Finalize, OwnRepository
<1>8. QED
  BY <1>1, <1>2, <1>3, <1>4, <1>6, <1>7 DEF Next, Collect, CollectRefused,
     TimerFires, Progress, ItemStep, Crash, PollAgain, PollTimerFails,
     InProgress, vars, managerVars, collectorVars, ProcessEvent

\* When a requester is called back, nothing in the repository was read for
\* another request, but for lines that a process left over has delivered to an
\* item the manager was waiting for.
THEOREM ReportIsOwnCorrect == Spec => []ReportIsOwn
<1>1. Init => OwnRepository
  BY DEF Init, OwnRepository
<1>2. OwnRepository => ReportIsOwn
  BY States DEF OwnRepository, ReportIsOwn
<1>3. QED
  BY <1>1, <1>2, OwnRepositoryStep, TypeInvariant, SoleProcessInvariant,
     AwaitedCallbackInvariant, PTL DEF Spec

-----------------------------------------------------------------------------
(* Every MUST item is in the report.                                       *)

\* The getters of the MUST items always answer with a value or SSE_E_NOENT.
AnsweringGetters ==
  \A i \in MustItems : Getter[i] \in {"fixed", "noEntry", "probe", "cpuinfo"}

\* The MUST items that have been left, and the present one unless its getter
\* has yet to be called, have a value; the first may have been skipped.
MustSoFar ==
  fState # NotStarted =>
    \A i \in MustItems :
      i < fState \/ (i = fState /\ fStatus # "initialized") =>
        fRepository[i] # {} \/ (i = 1 /\ disturbed)

LEMMA MustStored ==
  ASSUME AnsweringGetters, fRepository \in Repository, NEW i \in MustItems,
         NEW r \in Requests, NEW o \in Outcomes(Getter[i])
  PROVE  Stored(i, o.answer, r) # {}
<1>1. i \in Items /\ Policy[i] \in {"keepPreset", "blankOut"}
  BY DEF MustItems
<1>2. o \in ProbeOutcomes
  BY DEF AnsweringGetters, Outcomes, ProbeOutcomes
<1>3. o.answer \in {"ok", "noent"}
  BY <1>2 DEF ProbeOutcomes, FixedOutcomes, NoEntryOutcomes, Outcome
<1>4. QED
  BY <1>1, <1>3 DEF Stored, KeepPreset, BlankOut

\* A delivered answer leaves no entry empty that was not.
LEMMA DeliverKeeps ==
  ASSUME TypeInv, NEW p \in Process, NEW answer, Deliver(p, answer),
         NEW i \in Items, fRepository[i] # {}
  PROVE  fRepository'[i] # {}
<1>1. /\ fRepository \in Repository
      /\ fOnGetCallback \in Items \cup {NoItem}
      /\ p.request \in Requests
  BY DEF TypeInv, TypeOK, CollectorTypeOK, Process
<1>2. CASE fOnGetCallback # NoItem /\ Accepts(fOnGetCallback, p)
  <2>1. fOnGetCallback \in Items /\ Store(fOnGetCallback, answer, p.request)
    BY <1>1, <1>2 DEF Deliver
  <2>2. fRepository[fOnGetCallback] # {} =>
          Stored(fOnGetCallback, answer, p.request) # {}
    BY <1>1, <2>1, StoredType
  <2>3. QED
    BY <1>1, <2>1, <2>2 DEF Store, Repository
<1>3. CASE ~(fOnGetCallback # NoItem /\ Accepts(fOnGetCallback, p))
  BY <1>3 DEF Deliver
<1>4. QED
  BY <1>2, <1>3

LEMMA MustStep ==
  /\ AnsweringGetters
  /\ TypeInv /\ SoleProcess /\ AwaitedCallback /\ MustSoFar /\ [Next]_vars
  => MustSoFar'
<1> SUFFICES ASSUME AnsweringGetters, TypeInv, SoleProcess, AwaitedCallback,
                    MustSoFar, [Next]_vars
             PROVE  MustSoFar'
  OBVIOUS
<1>0. MustItems \subseteq Items /\ Items \subseteq Nat
  BY DEF MustItems, Items
<1>1. ASSUME NEW r \in Requests, BeginCollection(r) PROVE MustSoFar'
  <2>1. fState' = 1 /\ fStatus' = "initialized"
    BY <1>1 DEF BeginCollection, EnterNextState, Initialize, NotStarted
  <2>2. \A i \in Items : ~ i < 1
    BY LastItemAssumption DEF Items
  <2>3. QED
    BY <1>0, <2>1, <2>2 DEF MustSoFar
<1>2. ASSUME NEW o \in OutcomeType, Execute(o) PROVE MustSoFar'
  <2>1. /\ fState \in Items /\ fState # NotStarted /\ UNCHANGED fState
        /\ fCollectCallbackUserData \in Requests
        /\ fRepository \in Repository
        /\ o \in Outcomes(Getter[fState])
    BY <1>2, States DEF Execute, Collecting, TypeInv, TypeOK, Get
  <2>2. fRepository' = [fRepository EXCEPT ![fState] =
                          Stored(fState, o.answer, fCollectCallbackUserData)]
    BY <1>2 DEF Execute, Store
  <2>3. fState \in MustItems => fRepository'[fState] # {}
    BY <2>1, <2>2, MustStored DEF Repository
  <2>4. \A i \in Items \ {fState} : fRepository'[i] = fRepository[i]
    BY <2>1, <2>2 DEF Repository
  <2>5. UNCHANGED disturbed
    BY <1>2 DEF Execute, Get
  <2>6. QED
    BY <1>0, <2>1, <2>3, <2>4, <2>5 DEF MustSoFar
<1>3. ASSUME UNCHANGED <<fState, fStatus, fRepository, disturbed>>
      PROVE  MustSoFar'
  BY <1>3 DEF MustSoFar
<1>4. CASE NextItem
  <2>1. /\ fState \in Items /\ fState # NotStarted /\ fState' = fState + 1
        /\ fStatus # "initialized" /\ fStatus' = "initialized"
        /\ UNCHANGED <<fRepository, disturbed>>
    BY <1>4, States DEF NextItem, Collecting, EnterNextState, Initialize
  <2>2. \A i \in Items : i < fState + 1 => i < fState \/ i = fState
    BY <1>0, <2>1
  <2>3. fState + 1 \in Nat /\ \A i \in Items : i = fState + 1 => ~(i < fState)
    BY <1>0, <2>1
  <2>4. QED
    BY <1>0, <2>1, <2>2, <2>3 DEF MustSoFar
<1>5. ASSUME NEW p \in Process, NEW answer, ShellEvent, p \in processes,
             Deliver(p, answer) \/ UNCHANGED fRepository,
             disturbed => disturbed'
      PROVE  MustSoFar'
  <2>1. loop = "idle" /\ UNCHANGED fState
    BY <1>5 DEF ShellEvent
  <2>2. \A i \in Items : fRepository[i] # {} => fRepository'[i] # {}
    BY <1>5, DeliverKeeps
  <2>3. fStatus = "collecting" \/ disturbed
    BY <1>5, <2>1 DEF SoleProcess
  <2>4. fState \in Items /\ fStatus = "initialized" => fState = 1 /\ disturbed
    BY <2>1, <2>3 DEF AwaitedCallback
  <2>5. QED
    BY <1>0, <1>5, <2>1, <2>2, <2>4 DEF MustSoFar
<1>6. ASSUME NEW p \in Process,
             ProcessReads(p) \/ ProcessFails(p) \/ ProcessCompletes(p)
      PROVE  MustSoFar'
  BY <1>5, <1>6 DEF ProcessReads, ProcessFails, ProcessCompletes, OnRead,
     OnError, OnComplete, collectorVars
<1>7. CASE Finish \/ Finalize
  BY <1>7 DEF Finish, Finalize, MustSoFar
<1>8. QED
  BY <1>1, <1>2, <1>3, <1>4, <1>6, <1>7 DEF Next, Collect, CollectRefused,
     CollectAccepted, CollectTimerFails, TimerFires, Progress, ItemStep,
     Crash, PollAgain, PollTimerFails, InProgress, vars, managerVars,
     collectorVars, ProcessEvent

\* On a port whose MUST getters always answer, every MUST item has a value,
\* be it blank, when the requester is called back; only the first one can be
\* missing, in a collection that a process left over or an error disturbed.
THEOREM MustItemsReportedCorrect ==
  ASSUME AnsweringGetters
  PROVE  Spec => []MustItemsReported
<1>1. Init => MustSoFar
  BY DEF Init, MustSoFar
<1>2. TypeInv /\ SoleProcess /\ AwaitedCallback /\ MustSoFar /\ [Next]_vars =>
        MustSoFar'
  BY MustStep
<1>3. MustSoFar => MustItemsReported
  <2>1. \A i \in MustItems : i < Done
    BY LastItemAssumption DEF MustItems, Items, Done
  <2>2. QED
    BY <2>1, States DEF MustSoFar, MustItemsReported
<1>4. QED
  BY <1>1, <1>2, <1>3, TypeInvariant, SoleProcessInvariant,
     AwaitedCallbackInvariant, PTL DEF Spec

-----------------------------------------------------------------------------
(* Late events between two collections.                                    *)

\* When no item is being collected, a process that can still call back finds
\* no callback.
NoCallbackLeft ==
  loop # "stopped" /\ fState \notin Items =>
    fOnGetCallback = NoItem \/ processes = {}

LEMMA NoCallbackStep ==
  TypeInv /\ NoCallbackLeft /\ [Next]_vars => NoCallbackLeft'
<1> SUFFICES ASSUME TypeInv, NoCallbackLeft, [Next]_vars PROVE NoCallbackLeft'
  OBVIOUS
<1> USE DEF NoCallbackLeft
<1>0. fState \in Items => fState # NotStarted
  BY States
<1>1. ASSUME UNCHANGED <<collectorVars, fState>>, loop # "stopped" \/ UNCHANGED loop
      PROVE  NoCallbackLeft'
  BY <1>1 DEF collectorVars
<1>2. ASSUME fOnGetCallback' = NoItem PROVE NoCallbackLeft'
  BY <1>2
<1>3. ASSUME NEW r \in Requests, CollectAccepted(r) \/ CollectTimerFails(r)
      PROVE  NoCallbackLeft'
  BY <1>2, <1>3 DEF CollectAccepted, CollectTimerFails, BeginCollection,
     EnterNextState, Initialize
<1>4. ASSUME NEW o \in OutcomeType, Execute(o) PROVE NoCallbackLeft'
  BY <1>4 DEF Execute, Collecting
<1>5. CASE NextItem
  BY <1>2, <1>5 DEF NextItem, EnterNextState, Initialize
<1>6. CASE Finish
  <2>1. fState \notin Items /\ UNCHANGED collectorVars
    BY <1>6, States DEF Finish
  <2>2. QED
    BY <1>6, <2>1 DEF collectorVars, Finish
<1>7. ASSUME NEW p \in Process, ProcessEvent(p) PROVE NoCallbackLeft'
  <2>1. processes' \subseteq processes /\ UNCHANGED <<fOnGetCallback, fState, loop>>
    BY <1>7 DEF ProcessEvent, ProcessReads, ProcessFails, ProcessCompletes,
       ShellEvent, OnRead, OnError, OnComplete, collectorVars
  <2>2. QED
    BY <2>1
<1>8. CASE Finalize
  BY <1>8 DEF Finalize
<1>9. CASE UNCHANGED vars
  BY <1>1, <1>9 DEF vars, managerVars
<1>10. QED
  BY <1>1, <1>3, <1>4, <1>5, <1>6, <1>7, <1>8, <1>9 DEF Next, Collect,
     CollectRefused, TimerFires, Progress, ItemStep, Crash, PollAgain,
     PollTimerFails, InProgress, Collecting

\* What GetDevinfo returns between two collections does not change, however
\* late the events of shell processes come.
THEOREM QuietBetweenCollectionsCorrect == Spec => QuietBetweenCollections
<1>1. Init => NoCallbackLeft
  BY DEF Init, CollectorInit, NoCallbackLeft
<1>2. TypeInv /\ NoCallbackLeft /\ [Next]_vars =>
        [fState = NotStarted /\ fState' = NotStarted /\ loop' # "stopped" =>
           UNCHANGED fRepository]_vars
  <2> SUFFICES ASSUME NoCallbackLeft, Next, fState = NotStarted,
                      fState' = NotStarted, loop' # "stopped"
               PROVE  UNCHANGED fRepository
    OBVIOUS
  <2>1. fState \notin Items
    BY States
  <2>2. ASSUME NEW p \in Process, ProcessEvent(p) PROVE UNCHANGED fRepository
    <3>1. fOnGetCallback = NoItem \/ processes = {}
      BY <2>1, <2>2 DEF NoCallbackLeft, ProcessEvent, ProcessReads, ProcessFails,
         ProcessCompletes, ShellEvent
    <3>2. QED
      BY <2>2, <3>1 DEF ProcessEvent, ProcessReads, ProcessFails,
         ProcessCompletes, OnRead, OnError, OnComplete, Deliver
  <2>3. ASSUME NEW r \in Requests, BeginCollection(r) PROVE FALSE
    BY <2>3, States DEF BeginCollection, EnterNextState
  <2>4. QED
    BY <2>1, <2>2, <2>3 DEF Next, Collect, CollectRefused, CollectAccepted,
       CollectTimerFails, TimerFires, Progress, ItemStep, Execute, Crash,
       NextItem, PollAgain, PollTimerFails, InProgress, Collecting, Finish,
       Finalize
<1>3. QED
  BY <1>1, <1>2, NoCallbackStep, TypeInvariant, PTL
     DEF Spec, QuietBetweenCollections

=============================================================================
