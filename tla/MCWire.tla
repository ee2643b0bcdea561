------------------------------- MODULE MCWire -------------------------------
(* Instance of Wire for TLC.  With Base 3 a length of one byte overflows at 3, *)
(* one of two bytes at 9.                                                      *)
EXTENDS Wire, TLC

Str(n) == [i \in 1 .. n |-> 1 + (i % 2)]
Id == Base + 1

ServiceLists == {<<>>, <<Str(0)>>, <<Str(2)>>, <<Str(1), Str(0)>>, <<Str(3)>>,
                 <<Str(1), Str(0), Str(1)>>}
HeaderMaps == {[n \in {} |-> <<>>], Str(0) :> Str(1), Str(2) :> Str(8),
               (Str(1) :> Str(0)) @@ (Str(2) :> Str(2)), Str(3) :> Str(1), Str(1) :> Str(9)}
Signature(id, ss) == IF id = NoId THEN NoId ELSE Sign(id, ss)

MCInputs ==
    [type : {"request"}, id : {0, 80}, services : ServiceLists, headers : HeaderMaps]
    \cup [type : {"response"}, id : {5}, handled : BOOLEAN, headers : HeaderMaps]
    \cup { [type |-> "data", id |-> 7, data |-> Str(n)] : n \in {0, 1, 8, 9, 10, 20} }
    \cup { [type |-> "handshake", kadId |-> id, services |-> ss, signature |-> Signature(id, ss)] :
              id \in {NoId, Id}, ss \in ServiceLists }

MCMarker == [type |-> "data", id |-> 1, data |-> Str(2)]
=============================================================================
