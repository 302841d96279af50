-------------------------------- MODULE Line --------------------------------
(***************************************************************************)
(* What a serial port promises: the characters that arrive are received in *)
(* order, those that are sent leave in order. Nothing is lost but a        *)
(* character that is overrun by the next one before it is taken over, and  *)
(* what is under way when the port is opened anew.                         *)
(***************************************************************************)
EXTENDS Naturals, Sequences

CONSTANTS Client, Char, MaxReq, Texts

VARIABLES
  in, out,   \* arrived and not yet received; sent and not yet gone
  call, ret  \* what each caller has left to do; what the last call returned

Idle == [op |-> "idle", left |-> 0, data |-> <<>>]

Init ==
  /\ in = <<>> /\ out = <<>>
  /\ call = [c \in Client |-> Idle] /\ ret = <<>>

Arrive  == \E ch \in Char : in' = Append(in, ch) /\ UNCHANGED <<out, call, ret>>
Overrun ==
  /\ in # <<>>
  /\ \E ch \in Char : in' = [in EXCEPT ![Len(in)] = ch]
  /\ UNCHANGED <<out, call, ret>>
Leave   == out # <<>> /\ out' = Tail(out) /\ UNCHANGED <<in, call, ret>>

Begin(c) ==
  /\ call[c] = Idle
  /\ \/ \E n \in 1 .. MaxReq :
          call' = [call EXCEPT ![c] = [op |-> "recv", left |-> n, data |-> <<>>]]
     \/ \E s \in Texts :
          call' = [call EXCEPT ![c] = [op |-> "send", left |-> Len(s), data |-> s]]
  /\ ret' = <<>>
  /\ UNCHANGED <<in, out>>

(* The first k characters that wait are received, or are sent.             *)
Receive(c, k) ==
  /\ call[c].op = "recv" /\ k <= call[c].left /\ k <= Len(in)
  /\ in' = SubSeq(in, k + 1, Len(in))
  /\ LET got == call[c].data \o SubSeq(in, 1, k)
     IN IF k = call[c].left
        THEN call' = [call EXCEPT ![c] = Idle] /\ ret' = got
        ELSE /\ call' = [call EXCEPT ![c].left = @ - k, ![c].data = got]
             /\ UNCHANGED ret
  /\ UNCHANGED out

Send(c, k) ==
  /\ call[c].op = "send" /\ k <= call[c].left
  /\ out' = out \o SubSeq(call[c].data, 1, k)
  /\ IF k = call[c].left
     THEN call' = [call EXCEPT ![c] = Idle] /\ ret' = <<>>
     ELSE /\ call' = [call EXCEPT ![c].left = @ - k, ![c].data = SubSeq(@, k + 1, Len(@))]
          /\ UNCHANGED ret
  /\ UNCHANGED in

(* Nobody is in a call when the port is opened.                            *)
Reopen ==
  /\ \A c \in Client : call[c] = Idle
  /\ in' = <<>>
  /\ out' = <<>> \/ (out # <<>> /\ out' = <<Head(out)>>)
  /\ UNCHANGED <<call, ret>>

Next ==
  \/ Arrive \/ Overrun \/ Leave \/ Reopen
  \/ \E c \in Client : Begin(c) \/ \E k \in 1 .. MaxReq : Receive(c, k) \/ Send(c, k)

Spec == Init /\ [][Next]_<<in, out, call, ret>>
=============================================================================
