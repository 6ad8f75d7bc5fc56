--------------------------- MODULE CommandService ---------------------------
(***************************************************************************)
(* What the server can see of the model command "collect".  The handler    *)
(* promises an answer or returns an error.  A command that was promised an *)
(* answer is worked on, at most one at a time, and then the server is      *)
(* notified of it, once; or it is dropped without a word, which happens    *)
(* while another one is worked on, when work on it cannot begin, and to    *)
(* every command after one that could not begin.                           *)
(*                                                                         *)
(* What can only go wrong because the runtime does is an action of its own *)
(* that the constant RuntimeMayFail guards.                                *)
(***************************************************************************)
CONSTANTS
  Requests,       \* the commands
  RuntimeMayFail  \* TRUE: the runtime may refuse a service

VARIABLES
  phase,  \* how far each command has come
  up      \* the program has not been torn down

vars == <<phase, up>>

Phases == {"new", "error", "promised", "working", "dropped", "stuck",
           "report", "empty", "lost"}

TypeOK ==
  /\ phase \in [Requests -> Phases]
  /\ up \in BOOLEAN

Init ==
  /\ phase = [c \in Requests |-> "new"]
  /\ up = TRUE

Advance(c, from, to) ==
  /\ up
  /\ phase[c] = from
  /\ phase' = [phase EXCEPT ![c] = to]
  /\ UNCHANGED up

\* A command is worked on, or could not be begun and will never be over.
Occupied == \E c \in Requests : phase[c] \in {"working", "stuck"}

Promise(c) == Advance(c, "new", "promised")
Deny(c)    == RuntimeMayFail /\ Advance(c, "new", "error")
Work(c)    == ~Occupied /\ Advance(c, "promised", "working")
Stick(c)   == RuntimeMayFail /\ ~Occupied /\ Advance(c, "promised", "stuck")
Drop(c)    == Occupied /\ Advance(c, "promised", "dropped")
Report(c)  == Advance(c, "working", "report")
Fail(c)    == RuntimeMayFail /\ \E what \in {"empty", "lost"} :
                Advance(c, "working", what)

Stop ==
  /\ up
  /\ up' = FALSE
  /\ UNCHANGED phase

Next ==
  \/ \E c \in Requests :
       Promise(c) \/ Deny(c) \/ Work(c) \/ Stick(c) \/ Drop(c) \/ Report(c) \/ Fail(c)
  \/ Stop

Spec == Init /\ [][Next]_vars

=============================================================================
