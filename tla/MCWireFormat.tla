---------------------------- MODULE MCWireFormat ----------------------------
(* Bytes of two bits: a length in one byte is at most 3, in two at most 15. *)
EXTENDS WireFormat

Zeros(n) == [i \in 1..n |-> 0]

(* Of a list of 16 bytes none is in front: what the reader takes for the    *)
(* offsets, the inclusion proof and the signatures begins in the list.      *)
LooksLikeTheRest == <<0, 0>> \o <<1, 0, 0>> \o <<1, 1>> \o <<3, 0>> \o Zeros(3)

MCExts == {[type |-> 0, data |-> <<>>], [type |-> 1, data |-> <<>>],
           [type |-> 1, data |-> <<3>>], [type |-> 5, data |-> Zeros(4)],
           [type |-> 2, data |-> Zeros(16)], [type |-> 3, data |-> LooksLikeTheRest]}
MCOffsets == {<<0, 1>>, <<2, 15>>, <<1, 16>>}
MCInclusions == {<<>>, <<1, 2>>, <<1, 2, 3>>, Zeros(16)}
MCSignatures == {[id |-> id, signature |-> sig] :
                    id \in {<<>>, <<1>>, <<2>>, <<0, 1>>, Zeros(4)}, sig \in {<<>>, <<3>>}}
                  \union {[id |-> <<2>>, signature |-> Zeros(15)],
                          [id |-> <<2>>, signature |-> Zeros(16)]}
MCLogNumbers == {1, 2, 7}
MCLandmarkNums == {0, 1, 7}
MCFields == [issuer : {"ca", "other ca"}, from : {0}, to : {1, 2}, cn : {"a", "b"},
             key : {"k1", "k2"}]
MCSerials == {1, 2}

=============================================================================
