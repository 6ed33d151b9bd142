------------------------------- MODULE Adapter -------------------------------
(***************************************************************************)
(* What the adapters' containers share in device mode: the fixture or the     *)
(* environment they are started with, and what their consumer sees of them.   *)
(***************************************************************************)
EXTENDS Integers, Sequences, FiniteSets

CONSTANTS
    Adapters,        (* the images to consider                                 *)
    Configurations   (* for each image, what it may be started with            *)

VARIABLES
    adapter,
    config,   (* the fixture; for the router its environment                    *)
    lines,    (* standard output: 0 is the ready event, n the n-th operation    *)
    exit,     (* the exit code of the container, or Running                     *)
    served    (* the objects the device was built with                         *)

shared == <<adapter, config, lines, exit, served>>

Running == 999
Ready == 0

RawStatus(code) == code

\* What a process sees of its child's or its own exit code.
ExitStatus(code) == code % 256

EmitReady == lines' = <<Ready>>
EmitOperation == lines' = Append(lines, Len(lines))
Exit(code) == exit' = ExitStatus(code)

\* load_fixture and load_device_fixture: instance and name must be there.  A
\* fixture has both of them or neither.
Loads(fixture) == fixture.complete

\* The object a stack makes of its own address.
NetworkPort == {<<"network-port", 1>>}

Instances(fixture, type) ==
    {k \in DOMAIN fixture.objects : fixture.objects[k].type = type}

AdapterInit ==
    /\ adapter \in Adapters /\ config \in Configurations[adapter]
    /\ lines = <<>> /\ exit = Running /\ served = {}
=============================================================================
