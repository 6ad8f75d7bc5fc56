-------------------------- MODULE DevinfoMain_proofs --------------------------
(***************************************************************************)
(* What holds of the whole program for every report, port, set of commands *)
(* and heap.  The program is the application with a life around it, so     *)
(* what is proved of the application holds of it.                          *)
(***************************************************************************)
EXTENDS DevinfoMain, DevinfoApp_proofs

\* The application steps within a step of the program.
LEMMA MainStepIsAppStep == [MainNext]_mainVars => [AppNext]_appVars
<1> SUFFICES ASSUME [MainNext]_mainVars PROVE [AppNext]_appVars
  OBVIOUS
<1>1. CASE MoatInit \/ ManagerInitialize \/ RegisterModel
  BY <1>1 DEF MoatInit, ManagerInitialize, RegisterModel
<1>2. ASSUME NEW c \in Requests, BeginsCollection(c) PROVE AppNext
  BY <1>2 DEF BeginsCollection, AppNext
<1>3. CASE Run
  BY <1>3 DEF Run, InLoop, AppNext, ManagerStep
<1>4. CASE Succeed \/ Fail
  BY <1>4 DEF Succeed, Fail, Teardown, AppNext, ManagerStep
<1>5. CASE UNCHANGED mainVars
  BY <1>5 DEF mainVars
<1>6. QED
  BY <1>1, <1>2, <1>3, <1>4, <1>5 DEF MainNext

\* Whatever happens at the start and at the end of the program, the commands
\* it serves see the application that its specification describes.
THEOREM MainImplementsApp == MainSpec => AppSpec
BY MainStepIsAppStep, PTL DEF MainSpec, AppSpec, MainInit

-----------------------------------------------------------------------------

\* The types of the program's own variables.
ProgramTypeOK ==
  /\ stage \in Stages
  /\ exit \in Exits
  /\ fDevinfo \in Objects \cup {Null, Garbage}
  /\ heap \subseteq Objects

\* Nothing has been written to the manager before it is initialised.
Unwritten == stage \in {"init", "initialize"} => fDevinfo = Garbage

ProgramInv == ProgramTypeOK /\ Unwritten /\ HeapOwned

\* Where the repository makes itself a new object next to none, that object is
\* the only one left, whether or not the configuration file can be loaded.
LEMMA NewDevinfoOwned ==
  ASSUME NewDevinfo({})
  PROVE  fDevinfo' \in Objects /\ heap' = {fDevinfo'}
<1>1. PICK new \in Objects :
        LoadDevinfo({}, new) \/ (fDevinfo' = new /\ heap' = {} \cup {new})
  BY DEF NewDevinfo
<1>2. CASE LoadDevinfo({}, new)
  <2>1. PICK parsed \in Objects \ {new} :
          fDevinfo' = parsed /\ heap' = {new, parsed} \ {new}
    BY <1>2 DEF LoadDevinfo
  <2>2. QED
    BY <2>1
<1>3. QED
  BY <1>1, <1>2

LEMMA ProgramStep == ProgramInv /\ [MainNext]_mainVars => ProgramInv'
<1> SUFFICES ASSUME ProgramInv, [MainNext]_mainVars PROVE ProgramInv'
  OBVIOUS
<1>0. Null \notin Objects /\ Garbage \notin Objects
  BY ObjectsAssumption
<1> USE DEF ProgramInv, ProgramTypeOK, Unwritten, HeapOwned, Stages, Exits
<1>1. CASE MoatInit
  BY <1>1 DEF MoatInit
<1>2. CASE RegisterModel
  BY <1>2 DEF RegisterModel
<1>3. CASE ManagerInitialize
  <2>1. heap = {} /\ stage' = "register" /\ exit' = exit /\ NewDevinfo(heap)
    BY <1>0, <1>3 DEF ManagerInitialize
  <2>2. fDevinfo' \in Objects /\ heap' = {fDevinfo'}
    BY <2>1, NewDevinfoOwned
  <2>3. QED
    BY <2>1, <2>2
<1>4. ASSUME NEW c \in Requests, BeginsCollection(c) PROVE ProgramInv'
  <2>1. /\ stage = "run" /\ UNCHANGED <<stage, exit>>
        /\ heap \ {fDevinfo} = {} /\ NewDevinfo(heap \ {fDevinfo})
    BY <1>4 DEF BeginsCollection
  <2>2. fDevinfo' \in Objects /\ heap' = {fDevinfo'}
    BY <2>1, NewDevinfoOwned
  <2>3. QED
    BY <2>1, <2>2
<1>5. ASSUME UNCHANGED programVars PROVE ProgramInv'
  BY <1>5 DEF programVars
<1>6. ASSUME NEW how \in {"success", "failure", "crash"}, Teardown(how)
      PROVE  ProgramInv'
  <2>1. heap \ {fDevinfo} = {}
    BY <1>0
  <2>2. QED
    BY <1>0, <1>6, <2>1 DEF Teardown, FreeDevinfo
<1>7. QED
  BY <1>1, <1>2, <1>3, <1>4, <1>5, <1>6 DEF MainNext, Run, InLoop, Succeed,
     Fail, mainVars

LEMMA ProgramInvariant == MainSpec => []ProgramInv
<1>1. MainInit => ProgramInv
  BY ObjectsAssumption DEF MainInit, ProgramInv, ProgramTypeOK, Unwritten,
     HeapOwned, Stages, Exits
<1>2. QED
  BY <1>1, ProgramStep, PTL DEF MainSpec

\* Every variable of the program stays within its type.
THEOREM MainTypeCorrect == MainSpec => []MainTypeOK
<1>1. AppTypeOK /\ ProgramInv => MainTypeOK
  BY DEF ProgramInv, ProgramTypeOK, MainTypeOK
<1>2. QED
  BY <1>1, MainImplementsApp, AppTypeCorrect, ProgramInvariant, PTL

\* However often the report is renewed and wherever the start fails, exactly
\* one report object is allocated while the manager lives and none after it.
THEOREM HeapOwnedCorrect == MainSpec => []HeapOwned
BY ProgramInvariant, PTL DEF ProgramInv

\* In the whole program as well, the manager calls back with the allocated
\* context of a command that waits for its answer.
THEOREM MainCallsBackLiveContext == MainSpec => []CallsBackLiveContext
BY MainImplementsApp, CallsBackLiveContextCorrect, PTL

\* In the whole program no refused and no failed command leaves a context
\* behind.
THEOREM MainContextsAccounted == MainSpec => []ContextsAccounted
BY MainImplementsApp, ContextsAccountedCorrect, PTL

\* Wherever the start fails and whenever the program ends, the server sees the
\* commands served as it expects it.
THEOREM MainImplementsCommands == MainSpec => CommandsSpec
BY MainImplementsApp, AppImplementsCommands, PTL

\* In the whole program a command is notified at most once, and only if it was
\* promised an answer and the manager accepted it.
THEOREM MainNotifiedOnce == MainSpec => NotifiedOnce
BY MainImplementsApp, NotifiedOnceCorrect, PTL

\* In the whole program the manager serves one request at a time and calls back
\* the one it accepted.
THEOREM MainImplementsService == MainSpec => ServiceSpec
BY MainImplementsApp, AppImplementsManager, ImplementsService, PTL

\* In the whole program too a collection in progress has its one wake-up.
THEOREM MainOneWakeUp == MainSpec => []OneWakeUp
BY MainImplementsApp, AppImplementsManager, OneWakeUpCorrect, PTL

\* Every timer callback of the program ends.
THEOREM MainRunEnds == MainSpec => RunEnds
BY MainImplementsApp, AppImplementsManager, RunEndsCorrect, PTL

\* Between two collections the report of the program does not change.
THEOREM MainQuietBetweenCollections == MainSpec => QuietBetweenCollections
BY MainImplementsApp, AppImplementsManager, QuietBetweenCollectionsCorrect, PTL

\* If every getter that leaves the status COLLECTING launched a process for it,
\* the program never polls for something nobody is doing.
THEOREM MainCollectingHasProcess ==
  ASSUME LaunchingGetters
  PROVE  MainSpec => []CollectingHasProcess
BY MainImplementsApp, AppImplementsManager, CollectingHasProcessCorrect, PTL

=============================================================================
