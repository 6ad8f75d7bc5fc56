-------------------------- MODULE DevinfoCollector --------------------------
(***************************************************************************)
(* The device-information collector: one getter per item of the report,    *)
(* all of them sharing one status word, one registered callback and one    *)
(* shell-command structure.                                                *)
(*                                                                         *)
(* A getter is called by the manager and answers through the callback it   *)
(* was given: with a value, with SSE_E_NOENT, with another error, or not   *)
(* at all.  Synchronous getters have answered and set their final status   *)
(* when they return.  Shell getters only start a process; its events       *)
(* (data, error, completion) arrive later from the event loop and act on   *)
(* whatever status and callback the collector holds at that moment.        *)
(*                                                                         *)
(* The same code may be reported twice by one failing getter (the OS and   *)
(* ServiceSync-client getters do); the manager's callbacks store nothing   *)
(* for an error, so one answer stands for both.                            *)
(***************************************************************************)
EXTENDS Naturals

CONSTANTS
  LastItem,  \* number of items of the report (16 in the code)
  Getter,    \* the kind of getter each item has on this port
  Requests   \* the collect requests, each with a context of its own

Items == 1 .. LastItem
NoItem == 0

GetterKinds == {"fixed", "noEntry", "probe", "cpuinfo", "interfaces", "object",
                "simFile", "firmwareFile", "shell"}

\* Getters that log with a conversion that no argument fits: an integer for
\* "%s" (interfaces), no argument for it (cpuinfo), "%[" (OpenBlocks SIM file).
\* Such a line may end the program.
MislogsKinds == {"interfaces", "cpuinfo", "simFile"}

ASSUME LastItemAssumption == LastItem \in Nat \ {0}
ASSUME GetterAssumption == Getter \in [Items -> GetterKinds]

Statuses == {"initialized", "collecting", "completed", "finalized", "abend"}
Answers == {"ok", "noent", "error", "none"}

(***************************************************************************)
(* What a getter can do before it returns: the answer it gives through the *)
(* callback and the status it leaves behind.                               *)
(***************************************************************************)
Outcome(answer, status) == [answer |-> answer, status |-> status]

OutcomeType == [answer : Answers, status : Statuses]

\* A constant such as "Gateway".
FixedOutcomes == {Outcome("ok", "completed")}

\* The port has no source for the item.
NoEntryOutcomes == {Outcome("noent", "completed")}

\* A file, a command or the runtime is asked; any failure is SSE_E_NOENT.
ProbeOutcomes == FixedOutcomes \cup NoEntryOutcomes

\* One answer per readable interface, SSE_E_NOENT if there is no interface,
\* and silence if there are interfaces but none is readable.
InterfacesOutcomes == ProbeOutcomes \cup {Outcome("none", "completed")}

\* An object of several values, all or nothing.
ObjectOutcomes == FixedOutcomes \cup {Outcome("error", "abend")}

\* OpenBlocks SIM file.  When the file holds none of the three numbers, the
\* code passed to the callback is an uninitialized variable.
SimFileOutcomes ==
  { Outcome(answer, "completed") : answer \in {"ok", "noent", "error"} }
    \cup {Outcome("error", "abend")}

\* Armadillo firmware version: the failure path reports SSE_E_ACCES and
\* returns without leaving the status "collecting".
FirmwareFileOutcomes == FixedOutcomes \cup {Outcome("error", "collecting")}

\* A shell command is launched, or could not be.
Launched == Outcome("none", "collecting")
ShellOutcomes == {Launched, Outcome("error", "completed")}

Outcomes(kind) ==
  CASE kind = "fixed"        -> FixedOutcomes
    [] kind = "noEntry"      -> NoEntryOutcomes
    [] kind \in {"probe", "cpuinfo"} -> ProbeOutcomes
    [] kind = "interfaces"   -> InterfacesOutcomes
    [] kind = "object"       -> ObjectOutcomes
    [] kind = "simFile"      -> SimFileOutcomes
    [] kind = "firmwareFile" -> FirmwareFileOutcomes
    [] kind = "shell"        -> ShellOutcomes

-----------------------------------------------------------------------------

VARIABLES
  fStatus,         \* status word
  fOnGetCallback,  \* item whose callback is registered, NoItem when NULL
  processes,       \* shell processes that can still call back
  disturbed        \* history: the latest collection began with a process left
                   \* over, or a process has reported an error since

collectorVars == <<fStatus, fOnGetCallback, processes, disturbed>>

\* A process remembers the item that launched it and the request that item
\* was being collected for.
Process == [item : Items, request : Requests]

CollectorTypeOK ==
  /\ fStatus \in Statuses
  /\ fOnGetCallback \in Items \cup {NoItem}
  /\ processes \subseteq Process
  /\ disturbed \in BOOLEAN

\* The collector lives inside the manager, which is a local variable that the
\* manager's initialisation leaves alone here: its first status is arbitrary.
CollectorInit ==
  /\ fStatus \in Statuses
  /\ fOnGetCallback \in Items \cup {NoItem}
  /\ processes = {}
  /\ disturbed = FALSE

\* Mutant: the callback of the last getter stays registered.
InitializeKeepsCallback ==
  /\ fStatus' = "initialized"
  /\ UNCHANGED fOnGetCallback

\* Finalize is only ever called right before Initialize, or at the end of the
\* program, so its own status is never left standing.
Initialize ==
  /\ fStatus' = "initialized"
  /\ fOnGetCallback' = NoItem

\* A shell getter initialises the one command structure and executes its own
\* command in it.  A process whose command stood there may fall silent.
Launch(i, o, r) ==
  \E left \in SUBSET processes :
    processes' = IF o = Launched THEN left \cup {[item |-> i, request |-> r]}
                 ELSE left

\* The getter of item i is called on behalf of request r and does o.
Get(i, o, r) ==
  /\ o \in Outcomes(Getter[i])
  /\ fOnGetCallback' = i
  /\ fStatus' = o.status
  /\ IF Getter[i] = "shell" THEN Launch(i, o, r) ELSE UNCHANGED processes
  /\ UNCHANGED disturbed

\* Lines arrived: they are handed to the callback, nothing else changes.
OnRead(p) ==
  /\ p \in processes
  /\ UNCHANGED collectorVars

\* Reading failed, or the command reported an error.  The command is neither
\* stopped nor finalised: its process may go on, read and complete.
OnError(p) ==
  /\ p \in processes
  /\ fStatus' = "abend"
  /\ processes' \in {processes, processes \ {p}}
  /\ disturbed' = TRUE
  /\ UNCHANGED fOnGetCallback

\* Mutant: the status is not updated when the command is over.
OnCompleteKeepsStatus(p) ==
  /\ p \in processes
  /\ \E q \in processes : processes' = processes \ {p, q}
  /\ UNCHANGED <<fStatus, fOnGetCallback, disturbed>>

\* The command is over and the structure is finalised; a process whose command
\* has been written into it meanwhile may fall silent with it.
OnComplete(p) ==
  /\ p \in processes
  /\ fStatus' = "completed"
  /\ \E q \in processes : processes' = processes \ {p, q}
  /\ UNCHANGED <<fOnGetCallback, disturbed>>

=============================================================================
