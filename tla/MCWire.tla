-------------------------------- MODULE MCWire --------------------------------
(* The statements and answers of a connection, with one statement to a      *)
(* query; or the bytes of one, in buffers of 4 and 6 bytes.  What a         *)
(* behaviour is about is chosen at its start, the rest stays as it was made.*)
EXTENDS MCProtocol, Stream

VARIABLE which

L(n) == [kind |-> "line", len |-> n]
B(n) == [kind |-> "block", len |-> n]

\* Pieces below, at and above the limits of the client: it takes lines shorter
\* than 3 bytes and blocks of up to 6.
MCPieces == {L(2), L(3), B(1), B(3), B(7)}

allvars == <<which, vars, streamvars>>

MCInit == /\ which \in {"protocol", "stream"}
          /\ Init /\ StreamInit
          /\ which # "protocol" => mode = "script"

MCNext == \/ which = "protocol" /\ Next /\ UNCHANGED <<which, streamvars>>
          \/ which = "stream" /\ StreamNext /\ UNCHANGED <<which, vars>>

\* Fairness of either, as Protocol and Stream state it, for its own behaviours.
Of(component, action) == which = component /\ action

MCSpec == /\ MCInit /\ [][MCNext]_allvars
          /\ WF_allvars(Of("protocol", Worker) /\ UNCHANGED <<which, streamvars>>)
          /\ WF_allvars(Of("protocol", Client) /\ UNCHANGED <<which, streamvars>>)
          /\ WF_allvars(Of("stream", send_block) /\ UNCHANGED <<which, vars>>)
          /\ WF_allvars(Of("stream", Recv) /\ UNCHANGED <<which, vars>>)
=============================================================================
