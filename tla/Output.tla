------------------------------- MODULE Output -------------------------------
(***************************************************************************)
(* The Output objects (output.go), which funnel what many goroutines print *)
(* through one serializer goroutine each.  A goroutine hands its text to   *)
(* the serializer, and waits for the answer that it was written.  For a    *)
(* muted Output doOutput hands nothing over, and waits all the same.       *)
(***************************************************************************)
CONSTANTS
    Printers,   \* the goroutines that print
    Outputs,    \* the Output objects
    Quiet,      \* those made for run -q, muted from the start
    NoOutput    \* a printer is not in a call of doOutput or Write

ASSUME QuietAssumption == Quiet \subseteq Outputs
ASSUME NoOutputAssumption == NoOutput \notin Outputs

VARIABLES
    call,       \* the Output each printer waits for an answer of
    muted       \* the Outputs that are muted

outputVars == <<call, muted>>

OutputInit ==
    /\ call = [p \in Printers |-> NoOutput]
    /\ muted = Quiet

(* Out, Err or Write is called by a printer that is in no call.            *)
Emit(p, o) ==
    /\ call' = [call EXCEPT ![p] = o]
    /\ UNCHANGED muted

(* The serializer receives a text, writes it, and answers whether or not   *)
(* it could be written; it takes one text at a time.  The write blocks for *)
(* a client that does not read: see OutputStep in Server.                  *)
Serve(o, p) ==
    /\ call[p] = o /\ o \notin muted
    /\ call' = [call EXCEPT ![p] = NoOutput]
    /\ UNCHANGED muted

OutputTypeOK ==
    /\ call \in [Printers -> Outputs \cup {NoOutput}]
    /\ muted \subseteq Outputs

=============================================================================
