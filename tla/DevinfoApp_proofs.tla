-------------------------- MODULE DevinfoApp_proofs --------------------------
(***************************************************************************)
(* What holds of the application for every report, port and set of         *)
(* commands.  The application is the manager with more variables, so what  *)
(* is proved of the manager holds here; the invariant below ties the       *)
(* contexts and the notifications to what the manager has been asked.      *)
(***************************************************************************)
EXTENDS DevinfoApp, DevinfoManager_proofs

\* Every step of the application is one of the manager or leaves it alone.
LEMMA AppStepIsManagerStep == [AppNext]_appVars => [Next]_vars
<1> SUFFICES ASSUME [AppNext]_appVars PROVE [Next]_vars
  OBVIOUS
<1>1. ASSUME NEW c \in Requests, CollectCommand(c) PROVE UNCHANGED vars
  BY <1>1 DEF CollectCommand
<1>2. ASSUME NEW c \in Requests, CollectAsync(c) PROVE Next
  BY <1>2 DEF CollectAsync, Next, Collect
<1>3. CASE CollectOnComplete
  BY <1>3 DEF CollectOnComplete, Next, Progress
<1>4. CASE ManagerStep
  BY <1>4 DEF ManagerStep, ManagerRuns, Next, Progress
<1>5. CASE UNCHANGED appVars
  BY <1>5 DEF appVars
<1>6. QED
  BY <1>1, <1>2, <1>3, <1>4, <1>5 DEF AppNext

\* The application runs the manager as the manager's own specification says.
THEOREM AppImplementsManager == AppSpec => Spec
BY AppStepIsManagerStep, PTL DEF AppSpec, Spec, AppInit

LEMMA AppKeepsWakeUpInv == AppSpec => []WakeUpInv
BY AppImplementsManager, WakeUpInvariant, PTL

-----------------------------------------------------------------------------

CommandTypeOK ==
  /\ reply \in [Requests -> Replies]
  /\ started \subseteq Requests
  /\ contexts \subseteq Requests
  /\ notified \in [Requests -> Notifications]

\* Only a command whose handler promised an answer reaches the manager, and
\* only the manager's calling back leads to a notification.
PromisedInv ==
  \A c \in Requests :
    /\ c \in started => reply[c] = "inProgress"
    /\ result[c] # "unsent" => reply[c] = "inProgress"
    /\ notified[c] # "none" => result[c] = "answered"

\* The context of the request being served is allocated.
ServedContext == Serving => fCollectCallbackUserData \in contexts

CommandInv == CommandTypeOK /\ PromisedInv /\ ServedContext /\ ContextsAccounted

LEMMA CommandInit == AppInit => CommandInv
BY DEF AppInit, Init, CommandInv, CommandTypeOK, PromisedInv, ServedContext,
       ContextsAccounted, Serving, Replies, Notifications

\* Steps of the manager alone leave what the commands are told alone.
LEMMA QuietStep ==
  ASSUME CommandInv, UNCHANGED <<commandVars, result, fCollectCallbackUserData>>,
         fState = NotStarted <=> fState' = NotStarted,
         loop # "stopped"
  PROVE  CommandInv'
BY DEF commandVars, CommandInv, CommandTypeOK, PromisedInv, ServedContext,
       ContextsAccounted, Serving

LEMMA CommandStep ==
  WakeUpInv /\ CommandInv /\ [AppNext]_appVars => CommandInv'
<1> SUFFICES ASSUME WakeUpInv, CommandInv, [AppNext]_appVars
             PROVE  CommandInv'
  OBVIOUS
<1>0. /\ result \in [Requests -> Results]
      /\ fState # NotStarted => fCollectCallbackUserData \in Requests
      /\ CommandTypeOK /\ PromisedInv /\ ServedContext /\ ContextsAccounted
      /\ ServingInv
  BY DEF WakeUpInv, TypeInv, TypeOK, CommandInv
<1> USE DEF CommandInv, CommandTypeOK, PromisedInv, ServedContext,
            ContextsAccounted, Serving
<1>1. ASSUME NEW c \in Requests, CollectCommand(c) PROVE CommandInv'
  <2>1. UNCHANGED vars /\ contexts' = contexts /\ notified' = notified
    BY <1>1 DEF CollectCommand
  <2>2. /\ reply' \in [Requests -> Replies] /\ started' \subseteq Requests
        /\ \A d \in Requests : reply[d] # "none" => reply'[d] = reply[d]
        /\ \A d \in started' : d \in started \/ reply'[d] = "inProgress"
    BY <1>0, <1>1 DEF CollectCommand, Replies
  <2>3. UNCHANGED <<fState, fCollectCallbackUserData, loop, result>>
    BY <2>1 DEF vars, managerVars
  <2>4. PromisedInv'
    BY <1>0, <2>1, <2>2, <2>3
  <2>5. ServedContext' /\ ContextsAccounted'
    BY <1>0, <2>1, <2>3
  <2>6. QED
    BY <1>0, <2>1, <2>2, <2>4, <2>5
<1>2. ASSUME NEW c \in Requests, CollectAsync(c)
      PROVE  /\ reply[c] = "inProgress" /\ reply' = reply /\ notified' = notified
             /\ started' \subseteq started /\ contexts' \subseteq Requests
  BY <1>0, <1>2 DEF CollectAsync
<1>3. ASSUME NEW c \in Requests, CollectAsync(c), CollectAccepted(c)
      PROVE  CommandInv'
  <2>1. /\ fState = NotStarted /\ fState' # NotStarted /\ loop = "idle"
        /\ fCollectCallbackUserData' = c /\ loop' = loop
        /\ result[c] = "unsent"
        /\ result' = [result EXCEPT ![c] = "accepted"]
    BY <1>3, States DEF CollectAccepted, BeginCollection, EnterNextState, Tell
  <2>2. contexts' = contexts \cup {c}
    BY <1>0, <1>3, <2>1 DEF CollectAsync, CollectRefused, CollectTimerFails, Tell
  <2>3. QED
    BY <1>0, <1>2, <1>3, <2>1, <2>2
<1>4. ASSUME NEW c \in Requests, CollectAsync(c), CollectRefused(c)
      PROVE  CommandInv'
  <2>1. /\ UNCHANGED <<fState, fCollectCallbackUserData, loop>>
        /\ result[c] = "unsent" /\ fState # NotStarted
        /\ result' = [result EXCEPT ![c] = "refused"]
    BY <1>4 DEF CollectRefused, Tell
  <2>2. contexts' = contexts \ {c}
    BY <1>4, <2>1 DEF CollectAsync, CollectAccepted, BeginCollection
  <2>3. c # fCollectCallbackUserData
    BY <1>0, <2>1 DEF ServingInv
  <2>4. QED
    BY <1>0, <1>2, <1>4, <2>1, <2>2, <2>3
<1>5. ASSUME NEW c \in Requests, CollectAsync(c), CollectTimerFails(c)
      PROVE  CommandInv'
  <2>1. /\ fState = NotStarted /\ fState' # NotStarted /\ loop = "idle"
        /\ fCollectCallbackUserData' = c /\ loop' # "stopped"
        /\ result[c] = "unsent"
        /\ result' = [result EXCEPT ![c] = "failed"]
    BY <1>5, States DEF CollectTimerFails, BeginCollection, EnterNextState, Tell
  <2>2. contexts' = contexts \ {c}
    BY <1>0, <1>5, <2>1 DEF CollectAsync, CollectAccepted, CollectRefused, Tell
  <2>3. QED
    BY <1>0, <1>2, <1>5, <2>1, <2>2
<1>6. CASE CollectOnComplete
  <2> DEFINE c == fCollectCallbackUserData
  <2>1. /\ c \in Requests /\ c \in contexts /\ result[c] = "accepted"
        /\ fState' = NotStarted /\ loop = "progress"
        /\ result' = [result EXCEPT ![c] = "answered"]
        /\ UNCHANGED <<reply, started>>
    BY <1>0, <1>6, States DEF CollectOnComplete, Finish, Tell, ServingInv
  <2>2. PICK content \in Contents :
          /\ contexts' = IF content = "report" THEN contexts ELSE contexts \ {c}
          /\ \/ notified' = [notified EXCEPT ![c] = content]
             \/ notified' = [notified EXCEPT ![c] = "lost"]
    BY <1>6 DEF CollectOnComplete
  <2>3. content \in {"report", "empty"}
    BY DEF Contents, Serialized
  <2>4. PICK sent \in {"report", "empty", "lost"} :
          notified' = [notified EXCEPT ![c] = sent]
    BY <2>2, <2>3
  <2>5. contexts' \subseteq contexts
    BY <2>2
  <2>6. notified' \in [Requests -> Notifications]
    BY <1>0, <2>4 DEF Notifications
  <2>7. PromisedInv' /\ ServedContext'
    BY <1>0, <2>1, <2>4
  <2>8. ContextsAccounted'
    BY <1>0, <2>1, <2>4, <2>5
  <2>9. QED
    BY <1>0, <2>1, <2>5, <2>6, <2>7, <2>8
<1>7. ASSUME ManagerStep, ~Finalize PROVE CommandInv'
  BY <1>7, QuietManager, QuietStep DEF ManagerStep, ManagerRuns
<1>8. ASSUME ManagerStep, Finalize PROVE CommandInv'
  BY <1>0, <1>8 DEF ManagerStep, commandVars, Finalize
<1>9. CASE UNCHANGED appVars
  BY <1>0, <1>9 DEF appVars, vars, managerVars, commandVars
<1>10. QED
  BY <1>1, <1>3, <1>4, <1>5, <1>6, <1>7, <1>8, <1>9 DEF AppNext, CollectAsync

LEMMA CommandInvariant == AppSpec => []CommandInv
<1>1. AppSpec => AppInit /\ [][AppNext]_appVars
  BY DEF AppSpec
<1>2. QED
  BY <1>1, CommandInit, CommandStep, AppKeepsWakeUpInv, PTL

\* Every variable of the application stays within its type.
THEOREM AppTypeCorrect == AppSpec => []AppTypeOK
<1>1. WakeUpInv /\ CommandInv => AppTypeOK
  BY DEF WakeUpInv, TypeInv, CommandInv, CommandTypeOK, AppTypeOK
<1>2. QED
  BY <1>1, CommandInvariant, AppKeepsWakeUpInv, PTL

\* The manager only ever calls back with an allocated context, and only for a
\* command that was promised an answer and has got none yet.
THEOREM CallsBackLiveContextCorrect == AppSpec => []CallsBackLiveContext
<1>1. WakeUpInv /\ CommandInv => CallsBackLiveContext
  <2> SUFFICES ASSUME WakeUpInv, CommandInv, Serving
               PROVE  /\ fCollectCallbackUserData \in contexts
                      /\ reply[fCollectCallbackUserData] = "inProgress"
                      /\ notified[fCollectCallbackUserData] = "none"
    BY DEF CallsBackLiveContext
  <2>1. result[fCollectCallbackUserData] = "accepted"
    BY DEF WakeUpInv, ServingInv, Serving
  <2>2. fCollectCallbackUserData \in contexts
    BY DEF CommandInv, ServedContext
  <2>3. QED
    BY <2>1, <2>2 DEF CommandInv, CommandTypeOK, PromisedInv
<1>2. QED
  BY <1>1, CommandInvariant, AppKeepsWakeUpInv, PTL

\* No refused command and no failed one leaves a context behind.
THEOREM ContextsAccountedCorrect == AppSpec => []ContextsAccounted
BY CommandInvariant, PTL DEF CommandInv

\* A command is notified at most once, and only if it was promised an answer
\* and the manager accepted it.
THEOREM NotifiedOnceCorrect == AppSpec => NotifiedOnce
<1> DEFINE Once(c) ==
      notified[c] = "none" /\ reply[c] = "inProgress" /\ result[c] = "accepted"
<1>1. WakeUpInv /\ CommandInv /\ [AppNext]_appVars =>
        \A c \in Requests : notified'[c] # notified[c] => Once(c)
  <2> SUFFICES ASSUME WakeUpInv, CommandInv, [AppNext]_appVars,
                      NEW c \in Requests, notified'[c] # notified[c]
               PROVE  Once(c)
    OBVIOUS
  <2>1. CollectOnComplete
    BY DEF AppNext, CollectCommand, CollectAsync, ManagerStep, commandVars,
       appVars
  <2>2. c = fCollectCallbackUserData
    BY <2>1 DEF CollectOnComplete, CommandInv, CommandTypeOK
  <2>3. result[c] = "accepted"
    BY <2>1, <2>2 DEF CollectOnComplete, Finish, WakeUpInv, ServingInv
  <2>4. QED
    BY <2>3 DEF CommandInv, CommandTypeOK, PromisedInv
<1>2. QED
  BY <1>1, CommandInvariant, AppKeepsWakeUpInv, PTL DEF AppSpec, NotifiedOnce

-----------------------------------------------------------------------------
(* The application implements the service that the server sees.            *)

\* The phases of the commands.
PhaseOf == [c \in Requests |-> Phase(c)]

\* A command is in the phase that its reply, its result and its notification
\* put it in.
LEMMA PhaseCases ==
  ASSUME NEW c \in Requests, reply[c] \in Replies
  PROVE  /\ notified[c] # "none" => Phase(c) = notified[c]
         /\ notified[c] = "none" =>
              /\ result[c] = "accepted" => Phase(c) = "working"
              /\ result[c] = "failed" => Phase(c) = "stuck"
              /\ result[c] = "refused" => Phase(c) = "dropped"
              /\ result[c] \notin {"accepted", "failed", "refused"} =>
                   /\ reply[c] = "none" => Phase(c) = "new"
                   /\ reply[c] = "error" => Phase(c) = "error"
                   /\ reply[c] = "inProgress" => Phase(c) = "promised"
BY DEF Phase, Replies

\* A step that tells a command something else leaves the others in their phase.
LEMMA OnePhase ==
  ASSUME NEW c \in Requests,
         \A d \in Requests \ {c} :
           /\ reply'[d] = reply[d] /\ result'[d] = result[d]
           /\ notified'[d] = notified[d]
  PROVE  PhaseOf' = [PhaseOf EXCEPT ![c] = Phase(c)']
<1>1. \A d \in Requests \ {c} : Phase(d)' = Phase(d)
  BY DEF Phase
<1>2. QED
  BY <1>1 DEF PhaseOf

\* The server sees a command occupy the service while the manager is serving.
LEMMA OccupiedIsServing ==
  ASSUME WakeUpInv, CommandInv, ServedAlone, loop # "stopped"
  PROVE  Commands!Occupied <=> fState # NotStarted
<1>1. \A c \in Requests :
        /\ reply[c] \in Replies /\ notified[c] \in Notifications
        /\ notified[c] # "none" => result[c] = "answered"
  BY DEF CommandInv, CommandTypeOK, PromisedInv
<1>2. ASSUME NEW c \in Requests, Phase(c) \in {"working", "stuck"}
      PROVE  fState # NotStarted
  <2>1. result[c] \in {"accepted", "failed"}
    BY <1>1, <1>2, PhaseCases DEF Notifications, Replies
  <2>2. QED
    BY <2>1 DEF ServedAlone
<1>3. ASSUME fState # NotStarted
      PROVE  \E c \in Requests : Phase(c) \in {"working", "stuck"}
  <2>1. /\ fCollectCallbackUserData \in Requests
        /\ result[fCollectCallbackUserData] \in {"accepted", "failed"}
    BY <1>3 DEF WakeUpInv, TypeInv, ServingInv
  <2>2. notified[fCollectCallbackUserData] = "none"
    BY <1>1, <2>1
  <2>3. QED
    BY <1>1, <2>1, <2>2, PhaseCases
<1>4. QED
  BY <1>2, <1>3 DEF Commands!Occupied

\* A step that advances one command the way the server expects it.
LEMMA AdvanceIsOnePhase ==
  ASSUME NEW c \in Requests, loop # "stopped", loop' # "stopped",
         \A d \in Requests \ {c} :
           /\ reply'[d] = reply[d] /\ result'[d] = result[d]
           /\ notified'[d] = notified[d]
  PROVE  Commands!Advance(c, Phase(c), Phase(c)')
<1>1. PhaseOf' = [PhaseOf EXCEPT ![c] = Phase(c)']
  BY OnePhase
<1>2. PhaseOf[c] = Phase(c)
  BY DEF PhaseOf
<1>3. QED
  BY <1>1, <1>2 DEF PhaseOf, Commands!Advance

LEMMA CommandsStep ==
  WakeUpInv /\ CommandInv /\ ServedAlone /\ CommandInv' /\ [AppNext]_appVars
    => [Commands!Next]_Commands!vars
<1> SUFFICES ASSUME WakeUpInv, CommandInv, ServedAlone, CommandInv',
                    [AppNext]_appVars
             PROVE  Commands!Next \/ UNCHANGED Commands!vars
  OBVIOUS
<1>0. /\ result \in [Requests -> Results] /\ CommandTypeOK /\ CommandTypeOK'
      /\ ServingInv
      /\ \A c \in Requests :
           /\ reply[c] \in Replies /\ reply'[c] \in Replies
           /\ c \in started => reply[c] = "inProgress"
           /\ result[c] # "unsent" => reply[c] = "inProgress"
           /\ notified[c] # "none" => result[c] = "answered"
      /\ fState # NotStarted => fCollectCallbackUserData \in Requests
  BY DEF WakeUpInv, TypeInv, TypeOK, CommandInv, CommandTypeOK, PromisedInv
<1> DEFINE Same(c) == \A d \in Requests \ {c} :
             /\ reply'[d] = reply[d] /\ result'[d] = result[d]
             /\ notified'[d] = notified[d]
<1>1. ASSUME NEW c \in Requests, CollectCommand(c) PROVE Commands!Next
  <2>1. /\ loop # "stopped" /\ loop' = loop /\ Same(c)
        /\ reply[c] = "none" /\ result' = result /\ notified' = notified
    BY <1>0, <1>1 DEF CollectCommand, vars, managerVars, CommandTypeOK
  <2>2. result[c] = "unsent" /\ notified[c] = "none"
    BY <1>0, <2>1
  <2>3. Commands!Advance(c, Phase(c), Phase(c)')
    BY <2>1, AdvanceIsOnePhase
  <2>4. Phase(c) = "new"
    BY <1>0, <2>1, <2>2, PhaseCases
  <2>5. CASE reply' = [reply EXCEPT ![c] = "inProgress"]
    <3>1. reply'[c] = "inProgress"
      BY <1>0, <2>5 DEF CommandTypeOK
    <3>2. Phase(c)' = "promised"
      BY <2>1, <2>2, <3>1 DEF Phase
    <3>3. QED
      BY <2>3, <2>4, <3>2 DEF Commands!Promise, Commands!Next
  <2>6. CASE RuntimeMayFail /\ reply' = [reply EXCEPT ![c] = "error"]
    <3>1. reply'[c] = "error"
      BY <1>0, <2>6 DEF CommandTypeOK
    <3>2. Phase(c)' = "error"
      BY <2>1, <2>2, <3>1 DEF Phase
    <3>3. QED
      BY <2>3, <2>4, <2>6, <3>2 DEF Commands!Deny, Commands!Next
  <2>7. QED
    BY <1>1, <2>5, <2>6 DEF CollectCommand
<1>2. ASSUME NEW c \in Requests, CollectAsync(c) PROVE Commands!Next
  <2>1. /\ reply' = reply /\ notified' = notified /\ reply[c] = "inProgress"
    BY <1>0, <1>2 DEF CollectAsync
  <2>2. ASSUME NEW what \in {"accepted", "refused", "failed"}, Tell(c, what),
               result[c] = "unsent", loop # "stopped", loop' # "stopped"
        PROVE  /\ Commands!Advance(c, "promised", Phase(c)')
               /\ result'[c] = what /\ notified'[c] = "none"
    <3>1. result'[c] = what /\ Same(c)
      BY <1>0, <2>1, <2>2 DEF Tell
    <3>2. Commands!Advance(c, Phase(c), Phase(c)')
      BY <2>2, <3>1, AdvanceIsOnePhase
    <3>3. notified[c] = "none"
      BY <1>0, <2>2
    <3>4. Phase(c) = "promised"
      BY <1>0, <2>1, <2>2, <3>3, PhaseCases
    <3>5. QED
      BY <2>1, <3>1, <3>2, <3>3, <3>4
  <2>3. CASE CollectAccepted(c)
    <3>1. /\ Tell(c, "accepted") /\ result[c] = "unsent" /\ fState = NotStarted
          /\ loop # "stopped" /\ loop' # "stopped"
      BY <2>3 DEF CollectAccepted, BeginCollection
    <3>2. Phase(c)' = "working"
      BY <2>2, <3>1 DEF Phase
    <3>3. QED
      BY <2>2, <3>1, <3>2, OccupiedIsServing DEF Commands!Work, Commands!Next
  <2>4. CASE CollectRefused(c)
    <3>1. /\ Tell(c, "refused") /\ result[c] = "unsent" /\ fState # NotStarted
          /\ loop # "stopped" /\ loop' # "stopped"
      BY <2>4 DEF CollectRefused
    <3>2. Phase(c)' = "dropped"
      BY <2>2, <3>1 DEF Phase
    <3>3. QED
      BY <2>2, <3>1, <3>2, OccupiedIsServing DEF Commands!Drop, Commands!Next
  <2>5. CASE CollectTimerFails(c)
    <3>1. /\ Tell(c, "failed") /\ result[c] = "unsent" /\ fState = NotStarted
          /\ loop # "stopped" /\ loop' # "stopped" /\ RuntimeMayFail
      BY <2>5 DEF CollectTimerFails, BeginCollection
    <3>2. Phase(c)' = "stuck"
      BY <2>2, <3>1 DEF Phase
    <3>3. QED
      BY <2>2, <3>1, <3>2, OccupiedIsServing DEF Commands!Stick, Commands!Next
  <2>6. QED
    BY <1>2, <2>3, <2>4, <2>5 DEF CollectAsync
<1>3. CASE CollectOnComplete
  <2>0. PICK c \in Requests :
          c = fCollectCallbackUserData /\ result[c] = "accepted"
    BY <1>0, <1>3, States DEF CollectOnComplete, Finish, ServingInv
  <2>1. /\ notified[c] = "none" /\ fState = Done /\ loop # "stopped" /\ loop' # "stopped"
        /\ Tell(c, "answered") /\ UNCHANGED <<reply, started>>
    BY <1>0, <1>3, <2>0 DEF CollectOnComplete, Finish
  <2>2. PICK what \in {"report", "empty", "lost"} :
          /\ notified' = [notified EXCEPT ![c] = what]
          /\ what # "report" => RuntimeMayFail
    BY <1>3, <2>0, <2>1 DEF CollectOnComplete, Contents, Serialized,
       GetDevinfoReady
  <2>3. notified'[c] = what /\ Same(c)
    BY <1>0, <2>1, <2>2 DEF Tell, CommandTypeOK
  <2>4. Phase(c) = "working"
    BY <1>0, <2>0, <2>1, PhaseCases
  <2>5. Phase(c)' = what
    <3>1. notified'[c] # "none"
      BY <2>3
    <3>2. QED
      BY <2>3, <3>1 DEF Phase
  <2>6. Commands!Advance(c, "working", what)
    <3>1. Commands!Advance(c, Phase(c), Phase(c)')
      BY <2>1, <2>3, AdvanceIsOnePhase
    <3>2. QED
      BY <2>4, <2>5, <3>1
  <2>7. Commands!Report(c) \/ Commands!Fail(c)
    BY <2>2, <2>6 DEF Commands!Report, Commands!Fail
  <2>8. QED
    BY <2>7 DEF Commands!Next
<1>4. ASSUME UNCHANGED <<reply, result, notified>>
      PROVE  UNCHANGED [c \in Requests |-> Phase(c)]
  BY <1>4 DEF Phase
<1>5. CASE ManagerStep /\ ~Finalize
  <2>1. UNCHANGED <<reply, result, notified>> /\ loop # "stopped" /\ loop' # "stopped"
    BY <1>5, QuietManager DEF ManagerStep, ManagerRuns, commandVars
  <2>2. QED
    BY <1>4, <2>1 DEF Commands!vars
<1>6. CASE ManagerStep /\ Finalize
  <2>1. /\ UNCHANGED <<reply, result, notified>>
        /\ loop # "stopped" /\ loop' = "stopped"
    BY <1>6 DEF ManagerStep, Finalize, commandVars
  <2>2. QED
    BY <1>4, <2>1 DEF Commands!Stop, Commands!Next
<1>7. CASE UNCHANGED appVars
  <2>1. UNCHANGED <<reply, result, notified, loop>>
    BY <1>7 DEF appVars, commandVars, vars, managerVars
  <2>2. QED
    BY <1>4, <2>1 DEF Commands!vars
<1>8. QED
  BY <1>1, <1>2, <1>3, <1>5, <1>6, <1>7 DEF AppNext

\* To the server, the commands look as the abstract service says: each is
\* answered at most once and only if it was promised, one is worked on at a
\* time, one is dropped only while another occupies the service, and a report
\* is missing only if the runtime failed.
THEOREM AppImplementsCommands == AppSpec => CommandsSpec
<1>1. AppInit => Commands!Init
  <2> SUFFICES ASSUME AppInit PROVE Commands!Init
    OBVIOUS
  <2>1. /\ reply = [c \in Requests |-> "none"]
        /\ notified = [c \in Requests |-> "none"]
        /\ result = [c \in Requests |-> "unsent"] /\ loop = "idle"
    BY DEF AppInit, Init
  <2>2. \A c \in Requests : Phase(c) = "new"
    BY <2>1 DEF Phase
  <2>3. QED
    BY <2>1, <2>2 DEF Commands!Init
<1>2. AppSpec => []ServedAlone
  BY AppImplementsManager, ServedAloneInvariant, PTL
<1>3. QED
  BY <1>1, <1>2, CommandsStep, CommandInvariant, AppKeepsWakeUpInv, PTL
     DEF AppSpec, CommandsSpec, Commands!Spec

=============================================================================
