----------------------------- MODULE MCReceiver -----------------------------
(* The receiver on small sets of sequences and payload bytes.              *)
EXTENDS Receiver, FiniteSets

\* Frames that are not commands for this node: one for each way of failing a
\* check of the decoder, and one with each wrong length.
NotForUs ==
    LET good(type) == [extended |-> TRUE, type |-> type, dest |-> "SELF",
                       source |-> "CONTROLLER", seq |-> CHOOSE n \in Seqs : TRUE,
                       data |-> IF type \in {"SET_PHASE", "SET_VGA"} THEN <<0>> ELSE <<>>]
    IN  {[good("SET_VGA") EXCEPT !.extended = FALSE],
         [good("SET_VGA") EXCEPT !.dest = "OTHER"],
         [good("SET_VGA") EXCEPT !.source = "NODE"],
         [good("SET_VGA") EXCEPT !.dest = "BROADCAST"],
         [good("ENTER_SAFE") EXCEPT !.dest = "BROADCAST", !.data = <<0>>],
         [good("SET_VGA") EXCEPT !.data = <<>>],
         [good("SET_PHASE") EXCEPT !.data = <<0, 0>>],
         good("ACK")}

\* The frames of every command, with every byte in every payload of its length:
\* attenuations out of range included.
Addressed ==
    {f \in [extended : {TRUE}, type : CommandTypes, dest : {"SELF", "BROADCAST"},
            source : {"CONTROLLER"}, seq : Seqs, data : Payloads] :
        /\ Len(f.data) = RequiredLength(f.type)
        /\ f.dest = "BROADCAST" => f.type = "ENTER_SAFE"}

MCTraffic == Addressed \cup NotForUs
=============================================================================
