---------------------------- MODULE CommandTurns ----------------------------
(***************************************************************************)
(* What the agent promises about the operator's commands, whatever runs    *)
(* them: they are served one at a time and in the order in which they were *)
(* accepted, none is accepted while one is being served, and none is served*)
(* after the agent has begun to stop.                                      *)
(*                                                                         *)
(* The first `begun' commands of `accepted' have been started; the last of *)
(* them is still being served iff `busy'.                                  *)
(***************************************************************************)
EXTENDS Naturals, Sequences

CONSTANT Command

VARIABLES accepted, begun, busy, stopped

turnVars == <<accepted, begun, busy, stopped>>

TurnTypeOK ==
  /\ accepted \in Seq(Command)
  /\ begun \in 0..Len(accepted)
  /\ busy \in BOOLEAN
  /\ stopped \in BOOLEAN

Init ==
  /\ accepted = <<>>
  /\ begun = 0
  /\ busy = FALSE
  /\ stopped = FALSE

Accept(c) ==
  /\ ~busy
  /\ ~stopped
  /\ accepted' = Append(accepted, c)
  /\ UNCHANGED <<begun, busy, stopped>>

\* The next command in turn is started; nothing is left running beside it.
Begin ==
  /\ ~busy
  /\ ~stopped
  /\ begun < Len(accepted)
  /\ begun' = begun + 1
  /\ busy' = TRUE
  /\ UNCHANGED <<accepted, stopped>>

Finish ==
  /\ busy
  /\ busy' = FALSE
  /\ UNCHANGED <<accepted, begun, stopped>>

\* The command being served ends and the next one is started at once.
FinishAndBegin ==
  /\ busy
  /\ begun < Len(accepted)
  /\ begun' = begun + 1
  /\ UNCHANGED <<accepted, busy, stopped>>

\* The agent stops; the command being served, if any, is given up.
Stop ==
  /\ ~stopped
  /\ stopped' = TRUE
  /\ busy' = FALSE
  /\ UNCHANGED <<accepted, begun>>

Next ==
  \/ \E c \in Command : Accept(c)
  \/ Begin
  \/ Finish
  \/ FinishAndBegin
  \/ Stop

Spec == Init /\ [][Next]_turnVars
=============================================================================
