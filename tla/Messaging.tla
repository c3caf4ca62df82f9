----------------------------- MODULE Messaging -----------------------------
(***************************************************************************)
(* What nano_net promises the applications of two hosts that one path      *)
(* joins, however many hosts forward in between: a message is handled at   *)
(* most once and in the order sent, or lost; a handled message that asked  *)
(* for it is answered under its own seq.  There are no ports, routes or    *)
(* wires here.                                                             *)
(***************************************************************************)
EXTENDS Integers, Sequences

CONSTANTS Host, MayTalk, MaxBatch

VARIABLES
  seq,        \* seq[h]: number of h's next message
  inflight,   \* messages and answers on their way
  taken       \* taken[h][s]: what h has handled from s, in order

vars == <<seq, inflight, taken>>

Message(s, t, n, need_ack) ==
  [sender |-> s, target |-> t, seq |-> n, need_ack |-> need_ack, is_ack |-> FALSE]

AnswerTo(msg) ==
  [sender |-> msg.target, target |-> msg.sender, seq |-> msg.seq,
   need_ack |-> FALSE, is_ack |-> TRUE]

Init ==
  /\ seq = [h \in Host |-> 0]
  /\ inflight = {}
  /\ taken = [h \in Host |-> [s \in Host |-> <<>>]]

\* A send takes its numbers; the messages leave together, or not at all.
Send(s, t, n, need_ack) ==
  /\ <<s, t>> \in MayTalk
  /\ seq' = [seq EXCEPT ![s] = @ + n]
  /\ \/ inflight' = inflight \cup {Message(s, t, seq[s] + i, need_ack) : i \in 0..(n - 1)}
     \/ UNCHANGED inflight
  /\ UNCHANGED taken

\* Nothing overtakes: the oldest one of its kind between the two hosts.
Handle(msg) ==
  /\ \A other \in inflight :
       /\ other.sender = msg.sender /\ other.target = msg.target
       /\ other.is_ack = msg.is_ack
       => msg.seq <= other.seq
  /\ taken' = [taken EXCEPT ![msg.target][msg.sender] = Append(@, msg)]
  /\ inflight' = (inflight \ {msg}) \cup (IF msg.need_ack THEN {AnswerTo(msg)} ELSE {})
  /\ UNCHANGED seq

Lose(msg) ==
  /\ inflight' = inflight \ {msg}
  /\ UNCHANGED <<seq, taken>>

Next ==
  \/ \E s, t \in Host, n \in 1..MaxBatch, need_ack \in BOOLEAN : Send(s, t, n, need_ack)
  \/ \E msg \in inflight : Handle(msg) \/ Lose(msg)

Spec == Init /\ [][Next]_vars
=============================================================================
