----------------------------- MODULE PacketLink -----------------------------
(***************************************************************************)
(* What a connection promises to the code above it.  Packets are numbered  *)
(* by each side in the order it sends them.  While the connection lasts    *)
(* they reach the other side once, in that order and without a gap; once   *)
(* it has ended some may be missing, but none comes twice or late.         *)
(***************************************************************************)
EXTENDS Naturals, Sequences

VARIABLES asked, handled,      \* packets the client has sent, and the handlers had
          answered, received,  \* packets the server has sent, and the client had
          ended

vars == <<asked, handled, answered, received, ended>>

Init == /\ asked = 0 /\ handled = <<>> /\ answered = 0 /\ received = <<>>
        /\ ended = FALSE

Gapless(s) == \A k \in DOMAIN s : s[k] = k
Increasing(s) == \A j, k \in DOMAIN s : j < k => s[j] < s[k]

\* Of n packets sent, those in `got` had arrived and those in `now` have.
Further(n, got, now) ==
  /\ Len(got) < Len(now) /\ SubSeq(now, 1, Len(got)) = got
  /\ \A k \in DOMAIN now : now[k] \in 1..n
  /\ Increasing(now)

\* What the client writes may end several packets.
Ask == /\ asked' \in Nat /\ asked' > asked
       /\ UNCHANGED <<handled, answered, received, ended>>

Handle == /\ Further(asked, handled, handled')
          /\ ~ended => Gapless(handled')
          /\ ended \in {FALSE, ended'}
          /\ UNCHANGED <<asked, answered, received>>

AnswerPacket == /\ answered' = answered + 1
                /\ UNCHANGED <<asked, handled, received, ended>>

Receive == /\ Further(answered, received, received') /\ Gapless(received')
           /\ UNCHANGED <<asked, handled, answered, ended>>

End == /\ ~ended /\ ended'
       /\ UNCHANGED <<asked, handled, answered, received>>

Next == Ask \/ Handle \/ AnswerPacket \/ Receive \/ End

Spec == Init /\ [][Next]_vars

=============================================================================
