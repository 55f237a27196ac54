--------------------------- MODULE CommandService ----------------------------
(***************************************************************************)
(* What RuntimeController promises to the clients of the server: a call is *)
(* served alone, from the moment the service takes it until it replies; a  *)
(* call that finds another one being served is told so at once and is never*)
(* served; and nothing is taken on before the service opens or after it    *)
(* has begun to close, though what it has taken on then may still go on.   *)
(***************************************************************************)
CONSTANTS Client, Nobody

VARIABLES
  phase,    \* "closed", "open", "over"
  serving,  \* the call that is being served
  reply     \* what each call was told

serviceVars == <<phase, serving, reply>>

ServiceTypeOK ==
  /\ phase \in {"closed", "open", "over"}
  /\ serving \in Client \cup {Nobody}
  /\ reply \in [Client -> {"none", "completed", "failed", "busy", "timeout", "cancelled"}]

Init ==
  /\ phase = "closed"
  /\ serving = Nobody
  /\ reply = [c \in Client |-> "none"]

Opens ==
  /\ phase = "closed"
  /\ phase' \in {"open", "over"}
  /\ UNCHANGED <<serving, reply>>

Closes ==
  /\ phase = "open"
  /\ phase' = "over"
  /\ UNCHANGED <<serving, reply>>

Waiting(c) == reply[c] = "none" /\ serving # c

Take(c) ==
  /\ Waiting(c)
  /\ phase = "open"
  /\ serving = Nobody
  /\ serving' = c
  /\ UNCHANGED <<phase, reply>>

\* The call is sent away unserved.
Refuse(c) ==
  /\ Waiting(c)
  /\ \/ serving # Nobody /\ reply' = [reply EXCEPT ![c] = "busy"]
     \/ reply' = [reply EXCEPT ![c] = "failed"]
  /\ UNCHANGED <<phase, serving>>

Finish(c) ==
  /\ serving = c
  /\ serving' = Nobody
  /\ \E status \in {"completed", "failed", "timeout", "cancelled"} :
       reply' = [reply EXCEPT ![c] = status]
  /\ UNCHANGED phase

Next ==
  \/ Opens
  \/ Closes
  \/ \E c \in Client : Take(c) \/ Refuse(c) \/ Finish(c)

Spec == Init /\ [][Next]_serviceVars
=============================================================================
