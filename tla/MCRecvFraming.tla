---------------------------- MODULE MCRecvFraming ----------------------------
(***************************************************************************)
(* Streams for checking RecvFraming with TLC: every payload and key alone, *)
(* and short streams of a few frames of all kinds; of the long ones, one   *)
(* fits into the ring and one does not.                                    *)
(***************************************************************************)
EXTENDS RecvFraming

Good(s, k) == [kind |-> "good", payload |-> s, key |-> k]
Bad(kind)  == [kind |-> kind, payload |-> <<1>>, key |-> 2]

Alone == {<<Good(s, k)>> : s \in UNION {[1 .. n -> Bytes] : n \in 0 .. BufferSize}, k \in Bytes}

Long(n)    == [kind |-> "long", payload |-> [i \in 1 .. n |-> 1], key |-> 2]

Some == {Good(<<>>, 1), Good(<<3, 2>>, 3), Good(<<2>>, 0), Bad("code"), Bad("sum"),
         Long(BufferSize + 1), Long(Capacity)}

MCStreams == Alone \cup {<<f, g>> : f, g \in Some}
             \cup {<<f, g, h>> : f, g, h \in {s \in Some : s.kind = "good"}}

=============================================================================
