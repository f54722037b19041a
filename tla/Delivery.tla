------------------------------ MODULE Delivery ------------------------------
(***************************************************************************)
(* What a station that sends MSDUs one after the other to a station of the *)
(* non-QoS MAC may rely on, without sequence numbers, fragments, retries   *)
(* and timeouts: an MSDU is passed up at most once and in order, and it is *)
(* reported as sent only if it was, with one exception.  Once an MSDU has  *)
(* failed after some of its fragments have arrived, its receiver may be    *)
(* blocked: it acknowledges every later MSDU and passes none of them up.   *)
(***************************************************************************)
EXTENDS Integers

CONSTANT Msdus   \* the MSDUs: numbers, in the order in which they are sent

VARIABLES
  current,    \* the MSDU that is being sent, or 0
  delivered,  \* the MSDUs passed up by the receiver
  ok,         \* those the sender has reported as sent
  failed,     \* those it has reported as failed
  blocked     \* is the receiver blocked?

vars == <<current, delivered, ok, failed, blocked>>

Init ==
  /\ current = 0
  /\ delivered = {} /\ ok = {} /\ failed = {}
  /\ blocked = FALSE

Begin(m) ==
  /\ current = 0
  /\ \A k \in delivered \cup ok \cup failed : k < m
  /\ current' = m
  /\ UNCHANGED <<delivered, ok, failed, blocked>>

Deliver ==
  /\ current # 0 /\ current \notin delivered /\ ~blocked
  /\ delivered' = delivered \cup {current}
  /\ UNCHANGED <<current, ok, failed, blocked>>

Confirm ==
  /\ current # 0 /\ (current \in delivered \/ blocked)
  /\ ok' = ok \cup {current}
  /\ current' = 0
  /\ UNCHANGED <<delivered, failed, blocked>>

Fail ==
  /\ current # 0
  /\ failed' = failed \cup {current}
  /\ current' = 0
  /\ \/ UNCHANGED blocked
     \/ current \notin delivered /\ blocked' = TRUE
  /\ UNCHANGED <<delivered, ok>>

Next == (\E m \in Msdus : Begin(m)) \/ Deliver \/ Confirm \/ Fail

Spec == Init /\ [][Next]_vars
=============================================================================
