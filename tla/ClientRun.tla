------------------------------ MODULE ClientRun ------------------------------
(***************************************************************************)
(* What docs/CLIENT_DRIVER_CONTRACT.md promises the consumer of client mode, *)
(* whatever the stack behind it: nothing at all and a non-zero exit code     *)
(* when the driver cannot run, else a ready line, one result line for each   *)
(* selected scenario in file order, and a last line that counts them.        *)
(***************************************************************************)
EXTENDS Naturals, Sequences, FiniteSets

CONSTANTS
    Plans,    (* the scenarios a run may be asked for, in file order          *)
    Outcomes  (* the outcomes of interop-result-v1                            *)

VARIABLES
    plan,     (* the selected scenarios, in file order                        *)
    output,   (* the lines written to standard output                         *)
    exit      (* the exit code, or Running                                     *)

vars == <<plan, output, exit>>

Running == 99

Ready == [event |-> "ready"]
Result(n, o) == [event |-> "result", scenario |-> n, outcome |-> o]
Done(counts) == [event |-> "done", summary |-> counts]

\* How many of the lines have each outcome.
Counts(lines) ==
    [o \in Outcomes |-> Cardinality({k \in DOMAIN lines : lines[k].event = "result" /\ lines[k].outcome = o})]

Init == plan \in Plans /\ output = <<>> /\ exit = Running

Refuse ==
    /\ exit = Running /\ output = <<>>
    /\ exit' \in {1, 2}
    /\ UNCHANGED <<plan, output>>

WriteReady ==
    /\ exit = Running /\ output = <<>>
    /\ output' = <<Ready>>
    /\ UNCHANGED <<plan, exit>>

\* Each scenario is independent: the driver does not stop at a failure.
WriteResult ==
    /\ exit = Running /\ Len(output) \in 1..Len(plan)
    /\ \E o \in Outcomes : output' = Append(output, Result(Len(output), o))
    /\ UNCHANGED <<plan, exit>>

\* The last line, and exit code 0 whatever the outcomes were.
WriteDone ==
    /\ exit = Running /\ Len(output) = Len(plan) + 1
    /\ output' = Append(output, Done(Counts(output)))
    /\ exit' = 0
    /\ UNCHANGED plan

Next == Refuse \/ WriteReady \/ WriteResult \/ WriteDone

Spec == Init /\ [][Next]_vars

\* The consumer waits for the run to end.
FairSpec == Spec /\ WF_vars(Next)
=============================================================================
