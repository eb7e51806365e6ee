------------------------------- MODULE MCWire -------------------------------
(* Every type, destination and attenuation, every phase state, and the angles *)
(* around every boundary between two states.                                  *)
EXTENDS Wire

\* The words, each by itself: what the proofs about Wire leave to the run.
ASSUME Encodings == EncodingsAgree

Frame(type, dest, source, seq, data) ==
    [fields |-> [type |-> type, dest |-> dest, source |-> source, seq |-> seq],
     extended |-> TRUE, remote |-> FALSE, data |-> data]

\* Addresses and numbers in all combinations, and frames of other formats.
Addressed ==
    [fields : [type : 0..7, dest : 0..31, source : {0, 1, 2, 16, 31}, seq : {0, 1, 65535}],
     extended : {TRUE}, remote : BOOLEAN, data : {<<>>}]
    \cup [fields : [type : 0..7, dest : {5, 31}, source : {0, 1}, seq : {0}],
          extended : {FALSE}, remote : {FALSE}, data : {<<>>}]

Settings ==
    {Frame(1, 5, 0, 7, <<p, a>>) : p \in 0..255, a \in {0, 8, 23, 24}}
    \cup {Frame(2, 5, 0, 8, <<p>>) : p \in 0..255}
    \cup {Frame(3, 5, 0, 9, <<a>>) : a \in 0..255}

MCSent == Addressed \cup Settings

\* The middle between two states, and its neighbours.
MCAngles == {a \in {(k * FullTurn + 180000) \div 256 + d : k \in 0..255, d \in 0..2} : a <= FullTurn}
            \cup {0, FullTurn, 205300}
=============================================================================
