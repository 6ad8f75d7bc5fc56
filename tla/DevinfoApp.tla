----------------------------- MODULE DevinfoApp -----------------------------
(***************************************************************************)
(* The application: the model command "collect" of the MOAT runtime on one *)
(* side, the manager on the other.                                         *)
(*                                                                         *)
(* The runtime runs the command handler, which asks it to start an         *)
(* asynchronous command and answers SSE_E_INPROGRESS.  Later the runtime   *)
(* runs the asynchronous part, which allocates a context and hands it to   *)
(* the manager; what the manager answers is of no use to the server any    *)
(* more.  When the manager calls back, the report is sent in a             *)
(* notification that carries the key kept in the context.                  *)
(*                                                                         *)
(* A request of the manager is one run of the command, named by its key.   *)
(***************************************************************************)
EXTENDS DevinfoManager

VARIABLES
  reply,     \* what the handler of each command returned
  started,   \* commands whose asynchronous part has yet to run
  contexts,  \* commands whose context is allocated
  notified   \* what was notified for each command

commandVars == <<reply, started, contexts, notified>>
appVars == <<vars, commandVars>>

Replies == {"none", "inProgress", "error"}
Notifications == {"none", "report", "empty", "lost"}

AppTypeOK ==
  /\ TypeOK
  /\ reply \in [Requests -> Replies]
  /\ started \subseteq Requests
  /\ contexts \subseteq Requests
  /\ notified \in [Requests -> Notifications]

AppInit ==
  /\ Init
  /\ reply = [c \in Requests |-> "none"]
  /\ started = {}
  /\ contexts = {}
  /\ notified = [c \in Requests |-> "none"]

-----------------------------------------------------------------------------

\* DeviceInfo_collect, the command handler.
CollectCommand(c) ==
  /\ loop = "idle"
  /\ reply[c] = "none"
  /\ \/ /\ reply' = [reply EXCEPT ![c] = "inProgress"]
        /\ started' = started \cup {c}
     \/ /\ RuntimeMayFail
        /\ reply' = [reply EXCEPT ![c] = "error"]
        /\ UNCHANGED started
  /\ UNCHANGED <<vars, contexts, notified>>

\* Mutant: the context is deleted whatever the manager answers.
CollectAsyncDeletes(c) ==
  /\ c \in started
  /\ started' = started \ {c}
  /\ Collect(c)
  /\ contexts' = contexts \ {c}
  /\ UNCHANGED <<reply, notified>>

\* Mutant: the context of a refused command is not deleted.
CollectAsyncLeaks(c) ==
  /\ c \in started
  /\ started' = started \ {c}
  /\ Collect(c)
  /\ contexts' = contexts \cup {c}
  /\ UNCHANGED <<reply, notified>>

\* The asynchronous part: a context is allocated, and deleted again if the
\* manager does not accept it.
CollectAsync(c) ==
  /\ c \in started
  /\ started' = started \ {c}
  /\ \/ CollectAccepted(c) /\ contexts' = contexts \cup {c}
     \/ (CollectRefused(c) \/ CollectTimerFails(c)) /\ contexts' = contexts \ {c}
  /\ UNCHANGED <<reply, notified>>

\* GetDevinfo answers only outside the item states.
GetDevinfoReady == fState \in {NotStarted, Done}

\* The report as a JSON text; turning it into one may fail.
Serialized == {"report"} \cup (IF RuntimeMayFail THEN {"empty"} ELSE {})

\* What the notification can hold: an empty object if there is no report.
Contents == IF GetDevinfoReady THEN Serialized ELSE {"empty"}

\* The manager calls back.  The context is freed on the error path only.
CollectOnComplete ==
  LET c == fCollectCallbackUserData IN
  /\ Finish
  /\ \E content \in Contents :
       /\ contexts' = IF content = "report" THEN contexts ELSE contexts \ {c}
       /\ \/ notified' = [notified EXCEPT ![c] = content]
          \/ RuntimeMayFail /\ notified' = [notified EXCEPT ![c] = "lost"]
  /\ UNCHANGED <<reply, started>>

\* What the manager does in the event loop without the application.
ManagerRuns ==
  \/ \E t \in Intervals : TimerFires(t)
  \/ ItemStep
  \/ Crash
  \/ \E p \in Process : ProcessEvent(p)

\* The steps of the manager that the application does not take part in.
ManagerStep == (ManagerRuns \/ Finalize) /\ UNCHANGED commandVars

AppNext ==
  \/ \E c \in Requests : CollectCommand(c) \/ CollectAsync(c)
  \/ CollectOnComplete
  \/ ManagerStep

AppSpec == AppInit /\ [][AppNext]_appVars

\* As for the manager; moreover the runtime runs the asynchronous part of a
\* command it has started, although timers keep firing in between.
AppFairness ==
  /\ WF_appVars(CollectOnComplete \/ (Progress /\ ManagerStep))
  /\ WF_appVars(\E t \in Intervals : TimerFires(t) /\ ManagerStep)
  /\ \A p \in Process : SF_appVars(ProcessCompletes(p) /\ ManagerStep)
  /\ \A c \in Requests : SF_appVars(CollectAsync(c))

AppFairSpec == AppSpec /\ AppFairness

-----------------------------------------------------------------------------

Serving == fState # NotStarted /\ result[fCollectCallbackUserData] # "failed"

\* The context that the manager will call back with is allocated, and is the
\* one of an accepted command whose notification has not been sent: the
\* callback reads no freed context and answers nobody twice.
CallsBackLiveContext ==
  Serving =>
    /\ fCollectCallbackUserData \in contexts
    /\ reply[fCollectCallbackUserData] = "inProgress"
    /\ notified[fCollectCallbackUserData] = "none"

\* Every allocated context is the one being served or that of a command that
\* has been notified: refused commands leave none behind.  (Those of reported
\* commands are never freed.)
ContextsAccounted ==
  \A c \in contexts :
    \/ loop # "stopped" => Serving /\ c = fCollectCallbackUserData
    \/ notified[c] # "none"

\* A command is notified once, and only if its handler promised an answer and
\* the manager accepted it.
NotifiedOnce ==
  [][\A c \in Requests :
       notified'[c] # notified[c] =>
         notified[c] = "none" /\ reply[c] = "inProgress" /\ result[c] = "accepted"
    ]_appVars

\* What the server can see of a command.
Phase(c) ==
  CASE notified[c] # "none" -> notified[c]
    [] notified[c] = "none" /\ result[c] = "accepted" -> "working"
    [] notified[c] = "none" /\ result[c] = "failed"   -> "stuck"
    [] notified[c] = "none" /\ result[c] = "refused"  -> "dropped"
    [] OTHER -> CASE reply[c] = "none"       -> "new"
                  [] reply[c] = "error"      -> "error"
                  [] reply[c] = "inProgress" -> "promised"

\* The application serves commands as the server expects it: an answer only to
\* a command it was promised for, one at a time, and a report in it unless the
\* runtime fails (the manager calls back while its report can be read).
Commands == INSTANCE CommandService WITH
  phase <- [c \in Requests |-> Phase(c)],
  up <- loop # "stopped"
CommandsSpec == Commands!Spec

\* A command that the manager accepted is notified, unless the program ends.
AcceptedIsNotified ==
  \A c \in Requests :
    result[c] = "accepted" ~> notified[c] # "none" \/ loop \in {"dead", "stopped"}

\* A command whose handler answered SSE_E_INPROGRESS is notified, be it with an
\* empty object, unless the program ends (devinfo.c: "No way to reply error
\* after responding SSE_E_INPROGRESS, so reply empty object as error").
EveryCommandIsNotified ==
  \A c \in Requests :
    reply[c] = "inProgress" ~> notified[c] # "none" \/ loop \in {"dead", "stopped"}

=============================================================================
