---------------------------- MODULE DevinfoShell ----------------------------
(***************************************************************************)
(* The one shell-command structure that all shell getters of a collector   *)
(* share.  A getter initialises it and executes its command in it, and the *)
(* completion callback finalises it; the error callback leaves it as it    *)
(* is.  The callbacks of a process are handed this structure, so a process *)
(* whose command was overwritten would read the lines of another one.      *)
(***************************************************************************)
EXTENDS DevinfoManager

VARIABLE fCommand  \* the process whose command the structure holds

shellVars == <<vars, fCommand>>

NoCommand == [item |-> NoItem, request |-> NoRequest]

ShellInit == Init /\ fCommand = NoCommand

\* A shell getter initialises the structure, whether or not its command can be
\* executed then; the other getters have no use for it.
ExecuteCommand(o) ==
  /\ Execute(o)
  /\ fCommand' = IF Getter[fState] = "shell" THEN OwnProcess ELSE fCommand

\* The completion callback finalises the structure.
CommandCompletes(p) ==
  /\ ProcessCompletes(p)
  /\ fCommand' = NoCommand

LeavesCommand ==
  \/ \E r \in Requests : Collect(r)
  \/ \E t \in Intervals : TimerFires(t)
  \/ NextItem \/ PollAgain \/ PollTimerFails \/ Finish \/ Crash
  \/ \E p \in Process : ProcessReads(p) \/ ProcessFails(p)
  \/ Finalize

ShellNext ==
  \/ \E o \in OutcomeType : ExecuteCommand(o)
  \/ \E p \in Process : CommandCompletes(p)
  \/ LeavesCommand /\ UNCHANGED fCommand

ShellSpec == ShellInit /\ [][ShellNext]_shellVars

-----------------------------------------------------------------------------
(* Properties.                                                             *)

\* The command that the manager waits for stands in the structure as long as it
\* is waited for, whatever runs besides and whoever finalises the structure.
\* No other process finds a command that is not its own, unless a process has
\* reported an error: no item initialises the structure while a command of
\* another item, or of an earlier collection, is running in it (on
\* Armadillo-IoT the name servers and the SIM are both read by commands).
CommandIsOwn ==
  /\ fStatus = "collecting" /\ OwnProcess \in processes => fCommand = OwnProcess
  /\ \A p \in processes : fCommand = p \/ disturbed

\* While the manager waits, only the entry of the item it waits for changes,
\* whichever process the lines come from; and unless a process has reported an
\* error, they come from the command of that item and none other runs.
OnlyOwnEntryChanges ==
  [][loop = "idle" /\ fState # NotStarted /\ loop' # "stopped" =>
       \A i \in Items :
         fRepository'[i] # fRepository[i] =>
           /\ i = fState /\ i \in AwaitedItems
           /\ processes = {OwnProcess} \/ disturbed]_shellVars

=============================================================================
