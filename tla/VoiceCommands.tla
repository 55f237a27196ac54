---------------------------- MODULE VoiceCommands ----------------------------
(***************************************************************************)
(* AudioCommandClient.command_stream (src/diffbot_agent/audio_client.py):  *)
(* the voice commands of diffbot-audio, over a gRPC stream that is opened  *)
(* again whenever it ends.                                                 *)
(*                                                                         *)
(* The generator is suspended in the stream and in the delay before the    *)
(* next connection, and a cancellation of the producer reaches it there.   *)
(* At its yield it is not: the producer handles a command without          *)
(* suspending and asks for the next, so that a yield and the return to the *)
(* stream are one step.  channel.close() without a grace period does not   *)
(* suspend either.                                                         *)
(***************************************************************************)
EXTENDS Integers, Sequences

CONSTANTS
  Event,       \* what diffbot-audio may send: each event is sent at most once
  BadEvent,    \* the events that report an error, or carry a blank text
  MaxStreams   \* bound: how often diffbot-audio loses a stream

ASSUME VoiceAssumption == BadEvent \subseteq Event /\ MaxStreams \in Nat

VARIABLES
  gen,       \* where the generator is
  channels,  \* how many channels are open
  stream,    \* the stream as the generator will find it, past what has arrived
  arrived,   \* the events that have arrived and were not read
  said,      \* history: the events that were sent while a stream was open
  yielded,   \* history: the commands that the generator has yielded
  losses,    \* history: how many streams have been lost
  cancelled  \* history: the producer has been cancelled

vars == <<gen, channels, stream, arrived, said, yielded, losses, cancelled>>

TypeOK ==
  /\ gen \in {"new", "reading", "delaying", "ended"}
  /\ channels \in 0..1
  /\ stream \in {"none", "open", "over", "failed"}
  /\ arrived \in Seq(Event)
  /\ said \in Seq(Event)
  /\ yielded \in Seq(Event)
  /\ losses \in 0..MaxStreams
  /\ cancelled \in BOOLEAN

Init ==
  /\ gen = "new"
  /\ channels = 0
  /\ stream = "none"
  /\ arrived = <<>>
  /\ said = <<>>
  /\ yielded = <<>>
  /\ losses = 0
  /\ cancelled = FALSE

-----------------------------------------------------------------------------
(* diffbot-audio. *)

\* It speaks to the streams that are open: nobody hears what is said between.
Says(e) ==
  /\ stream = "open"
  /\ \A i \in DOMAIN said : said[i] # e
  /\ said' = Append(said, e)
  /\ arrived' = Append(arrived, e)
  /\ UNCHANGED <<gen, channels, stream, yielded, losses, cancelled>>

\* The server ends the stream, or it fails; a failure may lose what has arrived.
StreamLost ==
  /\ stream = "open"
  /\ losses < MaxStreams
  /\ losses' = losses + 1
  /\ \/ stream' = "over" /\ UNCHANGED arrived
     \/ stream' = "failed" /\ arrived' \in {arrived, <<>>}
  /\ UNCHANGED <<gen, channels, said, yielded, cancelled>>

-----------------------------------------------------------------------------
(* command_stream(). *)

\* Mutant: the loop keeps one channel, which nothing closes.
ChannelKept == channels

\* The finally clause.
ChannelClosed == channels - 1

Connects ==
  /\ gen \in {"new", "delaying"}
  /\ gen' = "reading"
  /\ channels' = channels + 1
  /\ stream' = "open"
  /\ arrived' = <<>>
  /\ UNCHANGED <<said, yielded, losses, cancelled>>

\* Mutant: an event is a command whenever there is one.
AnyEvent(e) == TRUE

\* An error is logged and skipped, and so is a blank text.
IsCommand(e) == e \notin BadEvent

ReadsEvent ==
  /\ gen = "reading"
  /\ arrived # <<>>
  /\ arrived' = Tail(arrived)
  /\ yielded' = IF IsCommand(Head(arrived)) THEN Append(yielded, Head(arrived)) ELSE yielded
  /\ UNCHANGED <<gen, channels, stream, said, losses, cancelled>>

Closes(next) ==
  /\ gen' = next
  /\ channels' = ChannelClosed
  /\ stream' = "none"
  /\ arrived' = <<>>
  /\ UNCHANGED <<said, yielded, losses>>

\* Mutant: only the end of a stream is followed by another connection.
EndsOnError ==
  /\ gen = "reading"
  /\ arrived = <<>>
  /\ stream \in {"over", "failed"}
  /\ Closes(IF stream = "over" THEN "delaying" ELSE "ended")
  /\ UNCHANGED cancelled

\* The stream has ended, or raises RpcError: it is opened again after a delay.
StreamEnds ==
  /\ gen = "reading"
  /\ arrived = <<>>
  /\ stream \in {"over", "failed"}
  /\ Closes("delaying")
  /\ UNCHANGED cancelled

-----------------------------------------------------------------------------
(* The end of the producer. *)

CancelledReading ==
  /\ gen = "reading"
  /\ Closes("ended")
  /\ cancelled' = TRUE

CancelledDelaying ==
  /\ gen = "delaying"
  /\ gen' = "ended"
  /\ cancelled' = TRUE
  /\ UNCHANGED <<channels, stream, arrived, said, yielded, losses>>

-----------------------------------------------------------------------------
Generator == Connects \/ ReadsEvent \/ StreamEnds

Next ==
  \/ \E e \in Event : Says(e)
  \/ StreamLost
  \/ Generator
  \/ CancelledReading \/ CancelledDelaying

\* The delay ends, and what has arrived is read.
Fairness == WF_vars(Generator)

SafetySpec == Init /\ [][Next]_vars

Spec == SafetySpec /\ Fairness

-----------------------------------------------------------------------------
(* Properties. *)

\* The operator's commands come in the order they were said, each once, and
\* nothing but commands comes; what no stream carried may be missing.
YieldedInOrder ==
  /\ \E place \in [DOMAIN yielded -> DOMAIN said] :
       /\ \A i, j \in DOMAIN yielded : i < j => place[i] < place[j]
       /\ \A i \in DOMAIN yielded : yielded[i] = said[place[i]]
  /\ \A i \in DOMAIN yielded : yielded[i] \notin BadEvent

\* The commands end only with the producer: a stream that is over or has failed
\* is opened again, over one channel, unless the producer is cancelled in the
\* meantime, and then no channel is left open.
LostStreamIsReopened ==
  stream \in {"over", "failed"} ~>
    \/ stream = "open" /\ channels = 1
    \/ cancelled /\ channels = 0
=============================================================================
