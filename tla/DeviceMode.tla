------------------------------ MODULE DeviceMode ------------------------------
(***************************************************************************)
(* What docs/CONTAINER_CONTRACT.md promises whoever starts a container in    *)
(* device mode, whatever stack is inside: "The first line is the ready event, *)
(* written once the BACnet/IP socket is bound", then one line for each         *)
(* operation the device reports, in the order they happened.                   *)
(***************************************************************************)
EXTENDS Naturals, Sequences

VARIABLES
    bound,      (* every BACnet/IP socket has been bound                        *)
    performed,  (* the operations that ask for a line, so far                   *)
    lines,      (* standard output: 0 is the ready event, n the n-th operation  *)
    exit        (* the exit code, or Running                                    *)

vars == <<bound, performed, lines, exit>>

Running == 999
Ready == 0

Init == bound = FALSE /\ performed = 0 /\ lines = <<>> /\ exit = Running

Bind ==
    /\ ~bound /\ bound' = TRUE
    /\ UNCHANGED <<performed, lines, exit>>

WriteReady ==
    /\ bound /\ lines = <<>> /\ lines' = <<Ready>>
    /\ UNCHANGED <<bound, performed, exit>>

\* A device may perform operations before anybody has been told that it is ready.
Perform ==
    /\ bound /\ performed' = performed + 1
    /\ UNCHANGED <<bound, lines, exit>>

WriteOperation ==
    /\ lines # <<>> /\ Len(lines) <= performed
    /\ lines' = Append(lines, Len(lines))
    /\ UNCHANGED <<bound, performed, exit>>

\* A device that writes its lines itself.
PerformAndWrite ==
    /\ bound /\ lines # <<>> /\ Len(lines) = performed + 1
    /\ performed' = performed + 1 /\ lines' = Append(lines, Len(lines))
    /\ UNCHANGED <<bound, exit>>

\* Exit codes are not specified.
Stop ==
    /\ exit' \in 0..255
    /\ UNCHANGED <<bound, performed, lines>>

Next == exit = Running /\ (Bind \/ WriteReady \/ Perform \/ WriteOperation \/ PerformAndWrite \/ Stop)

Spec == Init /\ [][Next]_vars
=============================================================================
