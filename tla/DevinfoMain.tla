----------------------------- MODULE DevinfoMain -----------------------------
(***************************************************************************)
(* The life of the program around the application: moat_app_main starts    *)
(* the runtime, initialises the manager, registers the model, runs the     *)
(* event loop and tears everything down, on an error as well.  The         *)
(* repository keeps the report in an object of the heap that it replaces   *)
(* at its initialisation, at every reset and with every configuration file *)
(* that can be loaded.                                                     *)
(*                                                                         *)
(* The manager is a local variable of moat_app_main.  Until it is          *)
(* initialised its memory is garbage, which the pointer to the report      *)
(* stands for; its other variables are not read before the event loop      *)
(* runs and hold here from the start the values they are given.            *)
(***************************************************************************)
EXTENDS DevinfoApp

CONSTANTS
  Objects,         \* places on the heap for report objects
  Null,            \* the NULL pointer
  Garbage,         \* a pointer that has never been written
  MoatInitMayFail  \* TRUE: the runtime may fail to start

ASSUME ObjectsAssumption == {Null, Garbage} \cap Objects = {} /\ Null # Garbage
ASSUME MoatInitAssumption == MoatInitMayFail \in BOOLEAN

VARIABLES
  stage,     \* where moat_app_main is
  exit,      \* how the program ended
  fDevinfo,  \* the repository's pointer to the report
  heap       \* report objects that are allocated

programVars == <<stage, exit, fDevinfo, heap>>
mainVars == <<appVars, programVars>>

Stages == {"init", "initialize", "register", "run", "failed", "ended"}
Exits == {"none", "success", "failure", "crash"}

MainTypeOK ==
  /\ AppTypeOK
  /\ stage \in Stages
  /\ exit \in Exits
  /\ fDevinfo \in Objects \cup {Null, Garbage}
  /\ heap \subseteq Objects

MainInit ==
  /\ AppInit
  /\ stage = "init"
  /\ exit = "none"
  /\ fDevinfo = Garbage
  /\ heap = {}

-----------------------------------------------------------------------------
(* The report object.                                                      *)

\* Mutant: the object that the loaded one replaces is not freed.
LoadDevinfoLeaks(others, new) ==
  \E parsed \in Objects \ (others \cup {new}) :
    /\ fDevinfo' = parsed
    /\ heap' = others \cup {new, parsed}

\* The configuration file can be parsed: its object replaces the new one.
LoadDevinfo(others, new) ==
  \E parsed \in Objects \ (others \cup {new}) :
    /\ fDevinfo' = parsed
    /\ heap' = (others \cup {new, parsed}) \ {new}

\* A new object next to the others, then the configuration file, which need
\* not be readable.  An object of the file shows in the report.
NewDevinfo(others) ==
  \E new \in Objects \ others :
    \/ fRepository' = PresetRepository /\ LoadDevinfo(others, new)
    \/ fRepository' = EmptyRepository /\ fDevinfo' = new /\ heap' = others \cup {new}

\* The repository is finalised.
FreeDevinfo ==
  /\ heap' = heap \ {fDevinfo}
  /\ fDevinfo' = Null

-----------------------------------------------------------------------------
(* moat_app_main.                                                          *)

MoatInit ==
  /\ stage = "init"
  /\ \/ stage' = "initialize"
     \/ MoatInitMayFail /\ stage' = "failed"
  /\ UNCHANGED <<appVars, exit, fDevinfo, heap>>

ManagerInitialize ==
  /\ stage = "initialize"
  /\ stage' = "register"
  /\ UNCHANGED <<appVars, exit>>
  /\ NewDevinfo(heap)

RegisterModel ==
  /\ stage = "register"
  /\ \/ stage' = "run"
     \/ RuntimeMayFail /\ stage' = "failed"
  /\ UNCHANGED <<appVars, exit, fDevinfo, heap>>

\* A collection begins: the repository frees its object and makes a new one.
BeginsCollection(c) ==
  /\ stage = "run"
  /\ fState = NotStarted
  /\ CollectAsync(c)
  /\ NewDevinfo(heap \ {fDevinfo})
  /\ UNCHANGED <<stage, exit>>

\* What the event loop does besides leaves the object where it is.
InLoop(A) == stage = "run" /\ A /\ UNCHANGED programVars

Run ==
  \/ \E c \in Requests : InLoop(CollectCommand(c))
  \/ \E c \in Requests : fState # NotStarted /\ InLoop(CollectAsync(c))
  \/ InLoop(CollectOnComplete)
  \/ InLoop(ManagerRuns /\ UNCHANGED commandVars)

\* The manager is finalised, the model unregistered, the runtime destroyed.
Teardown(how) ==
  /\ Finalize
  /\ UNCHANGED commandVars
  /\ FreeDevinfo
  /\ stage' = "ended"
  /\ exit' = how

\* The loop has been left.
Succeed == stage = "run" /\ Teardown("success")

\* err_exit.  A manager that was never initialised is finalised all the same:
\* its pointers are freed unless they happen to be NULL, and the program may
\* end there.
Fail ==
  /\ stage = "failed"
  /\ Teardown("failure") \/ (fDevinfo = Garbage /\ Teardown("crash"))

MainNext ==
  \/ MoatInit
  \/ ManagerInitialize
  \/ RegisterModel
  \/ \E c \in Requests : BeginsCollection(c)
  \/ Run
  \/ Succeed
  \/ Fail

MainSpec == MainInit /\ [][MainNext]_mainVars

\* As for the application, while the program runs.
MainFairness ==
  /\ WF_mainVars(InLoop(\/ CollectOnComplete
                        \/ (ItemStep \/ Crash) /\ UNCHANGED commandVars))
  /\ WF_mainVars(InLoop(\E t \in Intervals : TimerFires(t) /\ UNCHANGED commandVars))
  /\ \A p \in Process : SF_mainVars(InLoop(ProcessCompletes(p) /\ UNCHANGED commandVars))

MainFairSpec == MainSpec /\ MainFairness

-----------------------------------------------------------------------------
(* Properties.                                                             *)

\* The repository owns one report object from its initialisation to the
\* teardown, and it is the only one: whatever fails or is repeated, no object
\* is lost and none is used after it was freed.
HeapOwned ==
  /\ heap = IF fDevinfo \in Objects THEN {fDevinfo} ELSE {}
  /\ stage \in {"register", "run"} => fDevinfo \in Objects
  /\ stage = "ended" => fDevinfo = Null

\* A program that cannot start says so ("@retval EXIT_FAILURE Failure",
\* devinfo.c): moat_app_main returns.
StartFailureIsReported == stage = "ended" => exit \in {"success", "failure"}

=============================================================================
