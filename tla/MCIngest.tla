------------------------------ MODULE MCIngest ------------------------------
(* Three overlapping requests of one tracker that drains its queue from    *)
(* the front, retries included: fix f carries sequence id f.               *)
EXTENDS Ingest

Rec(f) == [seq |-> f, fix |-> f]
MCBodies == {<<Rec(1), Rec(2)>>, <<Rec(1), Rec(2), Rec(3)>>, <<Rec(2), Rec(3)>>,
             <<Rec(3), Rec(4)>>, <<[seq |-> 0, fix |-> 1], Rec(2), Rec(2)>>,
             <<[seq |-> 0, fix |-> 1]>>}
=============================================================================
