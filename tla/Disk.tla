-------------------------------- MODULE Disk --------------------------------
(***************************************************************************)
(* What a block device promises its callers: calls on a memory of sectors. *)
(* A call works on its sectors one after the other, each at once, and      *)
(* returns what it read, or an error.                                      *)
(***************************************************************************)
EXTENDS Naturals, Sequences

CONSTANTS Client, Sector, Value, MaxLen
VARIABLES content, call, ret

Idle == [op |-> "idle", at |-> 0, left |-> 0, val |-> 0, got |-> <<>>]

Init ==
  /\ content \in [Sector -> Value]
  /\ call = [c \in Client |-> Idle]
  /\ ret = [c \in Client |-> <<>>]

Begin(c) ==
  /\ call[c] = Idle
  /\ \E op \in {"fetch", "store"}, at \in Sector, n \in 1 .. MaxLen, v \in Value \cup {0} :
       call' = [call EXCEPT ![c] =
                  [op |-> op, at |-> at, left |-> n, val |-> v, got |-> <<>>]]
  /\ ret' = [ret EXCEPT ![c] = <<>>]
  /\ UNCHANGED content

(* One sector is read or written.                                          *)
Move(c) ==
  /\ call[c].left > 0 /\ call[c].at \in Sector
  /\ call' = [call EXCEPT ![c].at = @ + 1, ![c].left = @ - 1,
                ![c].got = IF call[c].op = "fetch" THEN Append(@, content[call[c].at]) ELSE @]
  /\ IF call[c].op = "store"
     THEN content' = [content EXCEPT ![call[c].at] = call[c].val]
     ELSE UNCHANGED content
  /\ UNCHANGED ret

End(c, result) ==
  /\ call[c] # Idle
  /\ call' = [call EXCEPT ![c] = Idle]
  /\ ret' = [ret EXCEPT ![c] = result]
  /\ UNCHANGED content

(* All sectors have been moved, or the next is beyond the capacity.        *)
Return(c) == (call[c].left = 0 \/ call[c].at \notin Sector) /\ End(c, call[c].got)
Fail(c)   == End(c, "error")

Next == \E c \in Client : Begin(c) \/ Move(c) \/ Return(c) \/ Fail(c)

Spec == Init /\ [][Next]_<<content, call, ret>>
=============================================================================
