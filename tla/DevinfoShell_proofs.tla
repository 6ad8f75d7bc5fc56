------------------------- MODULE DevinfoShell_proofs -------------------------
(***************************************************************************)
(* What holds of the shared command for every report, port and set of      *)
(* requests.  A getter runs only after the item before it has ended, so    *)
(* that the command the manager waits for is the last one written; and the *)
(* manager's invariant that an undisturbed collection has one process at   *)
(* most, that of its item, tells whose commands can be written over.       *)
(***************************************************************************)
EXTENDS DevinfoShell, DevinfoManager_proofs

\* Every step of this specification is one of the manager.
LEMMA ShellStepIsManagerStep == [ShellNext]_shellVars => [Next]_vars
<1> SUFFICES ASSUME [ShellNext]_shellVars PROVE [Next]_vars
  OBVIOUS
<1>1. ASSUME NEW o \in OutcomeType, ExecuteCommand(o) PROVE Next
  BY <1>1 DEF ExecuteCommand, Next, Progress, ItemStep
<1>2. ASSUME NEW p \in Process, CommandCompletes(p) PROVE Next
  BY <1>2 DEF CommandCompletes, Next, ProcessEvent
<1>3. CASE LeavesCommand
  BY <1>3 DEF LeavesCommand, Next, Progress, ItemStep, ProcessEvent
<1>4. CASE UNCHANGED shellVars
  BY <1>4 DEF shellVars
<1>5. QED
  BY <1>1, <1>2, <1>3, <1>4 DEF ShellNext

LEMMA ShellImplementsManager == ShellSpec => Spec
BY ShellStepIsManagerStep, PTL DEF ShellSpec, Spec, ShellInit

LEMMA ShellInvariants ==
  ShellSpec => []TypeInv /\ []SoleProcess /\ []AwaitedCallback
BY ShellImplementsManager, TypeInvariant, SoleProcessInvariant,
   AwaitedCallbackInvariant, PTL

-----------------------------------------------------------------------------
(* The command belongs to the process that can call back.                  *)

\* Every process was launched by the getter of a shell item.
ShellProcesses == \A p \in processes : Getter[p.item] = "shell"

LEMMA ShellProcessesInvariant == Spec => []ShellProcesses
<1> USE DEF ShellProcesses
<1>1. Init => ShellProcesses
  BY DEF Init, CollectorInit
<1>2. ASSUME ShellProcesses, NEW o \in OutcomeType, Execute(o)
      PROVE  ShellProcesses'
  BY <1>2 DEF Execute, Get, Launch
<1>3. ASSUME ShellProcesses, processes' \subseteq processes PROVE ShellProcesses'
  BY <1>3
<1>4. ShellProcesses /\ [Next]_vars => ShellProcesses'
  BY <1>2, <1>3 DEF Next, Collect, CollectRefused, CollectAccepted,
     CollectTimerFails, BeginCollection, TimerFires, Progress, ItemStep, Crash,
     NextItem, PollAgain, PollTimerFails, InProgress, Finish, ProcessEvent,
     ProcessReads, ProcessFails, ProcessCompletes, OnRead, OnError, OnComplete,
     Finalize, vars, collectorVars
<1>5. QED
  BY <1>1, <1>4, PTL DEF Spec

\* A getter writes its command into the structure when nobody else's is waited
\* for; what it writes over was left over, which takes an error.
LEMMA CommandStep ==
  TypeInv /\ SoleProcess /\ ShellProcesses /\ CommandIsOwn
    /\ [ShellNext]_shellVars
  => CommandIsOwn'
<1> SUFFICES ASSUME TypeInv, SoleProcess, ShellProcesses, CommandIsOwn,
                    [ShellNext]_shellVars
             PROVE  CommandIsOwn'
  OBVIOUS
<1> USE DEF CommandIsOwn
<1>1. ASSUME NEW o \in OutcomeType, ExecuteCommand(o) PROVE CommandIsOwn'
  <2>1. /\ fState \in Items /\ fStatus = "initialized" /\ loop = "progress"
        /\ Get(fState, o, fCollectCallbackUserData)
        /\ UNCHANGED <<fState, fCollectCallbackUserData>>
    BY <1>1 DEF ExecuteCommand, Execute, Collecting
  <2>2. UNCHANGED OwnProcess /\ UNCHANGED disturbed
    BY <2>1 DEF OwnProcess, Get
  <2>3. CASE Getter[fState] = "shell"
    <3>1. fCommand' = OwnProcess
      BY <1>1, <2>3 DEF ExecuteCommand
    <3>2. ~disturbed => processes' \subseteq {OwnProcess}
      BY <2>1, <2>3 DEF SoleProcess, Get, Launch, OwnProcess
    <3>3. QED
      BY <2>2, <3>1, <3>2
  <2>4. CASE Getter[fState] # "shell"
    <3>1. UNCHANGED <<processes, fCommand>>
      BY <1>1, <2>1, <2>4 DEF ExecuteCommand, Get
    <3>2. processes = {} \/ disturbed
      BY <2>1 DEF SoleProcess
    <3>3. OwnProcess \notin processes
      BY <2>4 DEF ShellProcesses, OwnProcess
    <3>4. QED
      BY <2>2, <3>1, <3>2, <3>3
  <2>5. QED
    BY <2>3, <2>4
<1>2. ASSUME NEW p \in Process, CommandCompletes(p) PROVE CommandIsOwn'
  <2>1. /\ p \in processes /\ processes' \subseteq processes \ {p}
        /\ loop = "idle" /\ fStatus' = "completed" /\ UNCHANGED disturbed
    BY <1>2 DEF CommandCompletes, ProcessCompletes, ShellEvent, OnComplete
  <2>2. processes' = {} \/ disturbed
    BY <2>1 DEF SoleProcess
  <2>3. QED
    BY <2>1, <2>2
<1>3. ASSUME LeavesCommand, UNCHANGED fCommand PROVE CommandIsOwn'
  <2>1. processes' \subseteq processes /\ (disturbed' \/ ~disturbed \/ processes' = {})
    <3>1. CASE \E r \in Requests : CollectAccepted(r) \/ CollectTimerFails(r)
      BY <3>1 DEF CollectAccepted, CollectTimerFails, BeginCollection
    <3>2. CASE \E p \in Process : ProcessFails(p)
      BY <3>2 DEF ProcessFails, ShellEvent, OnError
    <3>3. CASE UNCHANGED <<processes, disturbed>>
      BY <3>3
    <3>4. QED
      BY <1>3, <3>1, <3>2, <3>3 DEF LeavesCommand, Collect, CollectRefused,
         TimerFires, NextItem, PollAgain, PollTimerFails, InProgress, Finish,
         Crash, ProcessReads, ShellEvent, OnRead, Finalize, collectorVars
  <2>2. \/ fStatus' \in {"initialized", "abend"}
        \/ fState' = NotStarted
        \/ UNCHANGED <<collectorVars, fState, fCollectCallbackUserData>>
    BY <1>3 DEF LeavesCommand, Collect, CollectRefused, CollectAccepted,
       CollectTimerFails, BeginCollection, EnterNextState, Initialize,
       TimerFires, NextItem, PollAgain, PollTimerFails, InProgress, Finish,
       Crash, ProcessReads, ProcessFails, ShellEvent, OnRead, OnError, Finalize
  <2>3. fState' = NotStarted => OwnProcess' \notin processes'
    <3>1. processes \subseteq Process
      BY DEF TypeInv, TypeOK, CollectorTypeOK
    <3>2. QED
      BY <2>1, <3>1, States DEF Process, OwnProcess
  <2>4. fStatus' = "collecting" /\ OwnProcess' \in processes' => fCommand' = OwnProcess'
    BY <1>3, <2>1, <2>2, <2>3 DEF collectorVars, OwnProcess
  <2>5. QED
    BY <1>3, <2>1, <2>4
<1>4. CASE UNCHANGED shellVars
  BY <1>4 DEF shellVars, vars, collectorVars, managerVars, OwnProcess
<1>5. QED
  BY <1>1, <1>2, <1>3, <1>4 DEF ShellNext

\* No getter writes its command over one that is waited for; over one that is
\* running only if a process has reported an error.
THEOREM CommandIsOwnCorrect == ShellSpec => []CommandIsOwn
<1>1. ShellInit => CommandIsOwn
  BY DEF ShellInit, Init, CollectorInit, CommandIsOwn
<1>2. ShellSpec => []ShellProcesses
  BY ShellImplementsManager, ShellProcessesInvariant, PTL
<1>3. QED
  BY <1>1, <1>2, CommandStep, ShellInvariants, PTL DEF ShellSpec

-----------------------------------------------------------------------------
(* Only the entry of the item being collected changes.                     *)

\* While the manager waits, no entry but the awaited item's changes, and unless
\* a process has reported an error, only through the item's own command.
THEOREM OnlyOwnEntryChangesCorrect == ShellSpec => OnlyOwnEntryChanges
<1> DEFINE Waits == loop = "idle" /\ fState # NotStarted /\ loop' # "stopped"
           Own(i) == /\ i = fState /\ i \in AwaitedItems
                     /\ processes = {OwnProcess} \/ disturbed
<1>1. TypeInv /\ SoleProcess /\ AwaitedCallback /\ [Next]_vars /\ Waits =>
        \A i \in Items : fRepository'[i] # fRepository[i] => Own(i)
  <2> SUFFICES ASSUME TypeInv, SoleProcess, AwaitedCallback, [Next]_vars, Waits,
                      NEW i \in Items, fRepository'[i] # fRepository[i]
               PROVE  Own(i)
    OBVIOUS
  <2>1. PICK p \in Process : ProcessReads(p) \/ ProcessFails(p)
    BY DEF Next, Collect, CollectRefused, CollectAccepted, CollectTimerFails,
       BeginCollection, TimerFires, Progress, ItemStep, Execute, Crash,
       NextItem, PollAgain, PollTimerFails, InProgress, Collecting, Finish,
       ProcessEvent, ProcessCompletes, Finalize, vars, managerVars
  <2>2. /\ p \in processes
        /\ Deliver(p, "ok") \/ Deliver(p, "error")
    BY <2>1 DEF ProcessReads, ProcessFails, OnRead, OnError
  <2>3. fRepository \in Repository /\ fState \in 0 .. Done
    BY DEF TypeInv, TypeOK
  <2>4. i = fOnGetCallback /\ fOnGetCallback # NoItem
    BY <2>2, <2>3 DEF Deliver, Store, Repository
  <2>5. fState \in Items /\ fOnGetCallback = fState /\ fState \in AwaitedItems
    BY <2>3, <2>4, States DEF AwaitedCallback
  <2>6. processes = {OwnProcess} \/ disturbed
    BY <2>2 DEF SoleProcess
  <2>7. QED
    BY <2>4, <2>5, <2>6
<1>2. TypeInv /\ SoleProcess /\ AwaitedCallback /\ [ShellNext]_shellVars =>
        (Waits => \A i \in Items : fRepository'[i] # fRepository[i] => Own(i))
  BY <1>1, ShellStepIsManagerStep
<1>3. QED
  BY <1>2, ShellInvariants, PTL DEF ShellSpec, OnlyOwnEntryChanges

=============================================================================
