-------------------------- MODULE MCDeviceCommand --------------------------
(* Instance of DeviceCommand: one device, one thing it may offer, each of  *)
(* the six routes, and a request for a namespace that is not configured.   *)
EXTENDS DeviceCommand, TLC

Ask(a, o, k) == [api |-> a, op |-> o, known |-> k, dev |-> "d", thing |-> "t"]

MCAsks ==
    {Ask(a, o, TRUE) : a \in {"json", "page"}, o \in {"instcmd", "fsd", "setvar"}}
        \cup {Ask("json", "fsd", FALSE)}

(* Requests are told apart by what they ask for, which Init ranges over. *)
RequestSymmetry == Permutations(Requests)
=============================================================================
