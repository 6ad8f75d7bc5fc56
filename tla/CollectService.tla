--------------------------- MODULE CollectService ---------------------------
(***************************************************************************)
(* What the manager promises to those who ask it to collect: it serves one *)
(* request at a time, refuses the others while it is busy and only then,   *)
(* and calls back the request it serves, that one and no other, once.      *)
(* A request whose start-up failed is never called back.  When the         *)
(* program is torn down the request being served is dropped.               *)
(***************************************************************************)
CONSTANTS
  Requests,   \* the collect requests
  NoRequest   \* not a request

VARIABLES
  serving,  \* the request being served, or NoRequest
  result,   \* what each request has been told so far
  up        \* the service has not been torn down

vars == <<serving, result, up>>

Results == {"unsent", "accepted", "refused", "failed", "answered"}

TypeOK ==
  /\ serving \in Requests \cup {NoRequest}
  /\ result \in [Requests -> Results]
  /\ up \in BOOLEAN

Init ==
  /\ serving = NoRequest
  /\ result = [r \in Requests |-> "unsent"]
  /\ up = TRUE

Tell(r, what) == result' = [result EXCEPT ![r] = what]

Begin(r, what) ==
  /\ up
  /\ serving = NoRequest
  /\ result[r] = "unsent"
  /\ serving' = r
  /\ Tell(r, what)
  /\ UNCHANGED up

Accept(r) == Begin(r, "accepted")

\* Starting failed.  The service does not recover: it stays occupied.
Break(r) == Begin(r, "failed")

Refuse(r) ==
  /\ up
  /\ serving # NoRequest
  /\ result[r] = "unsent"
  /\ Tell(r, "refused")
  /\ UNCHANGED <<serving, up>>

Answer ==
  /\ up
  /\ serving # NoRequest
  /\ result[serving] = "accepted"
  /\ Tell(serving, "answered")
  /\ serving' = NoRequest
  /\ UNCHANGED up

Stop ==
  /\ up
  /\ up' = FALSE
  /\ serving' = NoRequest
  /\ UNCHANGED result

Next ==
  \/ \E r \in Requests : Accept(r) \/ Break(r) \/ Refuse(r)
  \/ Answer
  \/ Stop

Spec == Init /\ [][Next]_vars

=============================================================================
