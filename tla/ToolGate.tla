------------------------------- MODULE ToolGate -------------------------------
(***************************************************************************)
(* What the permission gate promises about the calls a model makes: a call *)
(* runs only after it was approved and the approval reached the disk, and  *)
(* it runs at most once, however often the program is restarted.           *)
(* AgentHost implements this specification.                                *)
(***************************************************************************)
EXTENDS Naturals

CONSTANT Call

Verdict == {"Approved", "Denied"}
Gate == {"Absent", "Pending"} \cup Verdict

VARIABLES
    gate,    \* where each call stands
    saved,   \* where each call stands in the last saved session
    runs     \* how often each call has run

gateVars == <<gate, saved, runs>>

GateInit ==
    /\ gate = [c \in Call |-> "Absent"]
    /\ saved = [c \in Call |-> "Absent"]
    /\ runs = [c \in Call |-> 0]

\* the model makes a call; a policy may decide it at once
Request(c, g) ==
    /\ gate[c] = "Absent"
    /\ gate' = [gate EXCEPT ![c] = g]
    /\ UNCHANGED <<saved, runs>>

\* one reply of the user decides a batch of pending calls
Decide(B, v) ==
    /\ \A c \in B : gate[c] = "Pending"
    /\ gate' = [c \in Call |-> IF c \in B THEN v ELSE gate[c]]
    /\ UNCHANGED <<saved, runs>>

Save ==
    /\ saved' = gate
    /\ UNCHANGED <<gate, runs>>

RunCall(c) ==
    /\ saved[c] = "Approved"
    /\ runs[c] = 0
    /\ runs' = [runs EXCEPT ![c] = 1]
    /\ UNCHANGED <<gate, saved>>

\* the program is killed and started again: what was not saved is forgotten
Restart ==
    /\ gate' = saved
    /\ UNCHANGED <<saved, runs>>

GateNext ==
    \/ \E c \in Call, g \in Gate : Request(c, g)
    \/ \E B \in SUBSET Call, v \in Verdict : Decide(B, v)
    \/ Save
    \/ \E c \in Call : RunCall(c)
    \/ Restart

GateSpec == GateInit /\ [][GateNext]_gateVars
=============================================================================
