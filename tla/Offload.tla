------------------------------ MODULE Offload ------------------------------
(***************************************************************************)
(* What the kernels under fpga/pynq-z2/modelblaster/kernels/roccmoon       *)
(* promise the network that calls them, wherever the work is done: a call  *)
(* changes the tensor it was given and nothing else, has every part of it  *)
(* right when it returns, and nothing changes between two calls.           *)
(***************************************************************************)
EXTENDS Naturals

CONSTANTS MaxCalls, MaxParts, NBufs

VARIABLES phase,  \* "idle" or "busy": the caller is outside or inside a kernel
          cur,    \* number of the call
          parts,  \* parts of its tensor the call must write
          out     \* the tensors: the call and part each part is the answer of

vars == <<phase, cur, parts, out>>

Parts == 1 .. MaxParts
Bufs  == 0 .. NBufs - 1
None  == <<0, 0>>
Buf   == cur % NBufs

Right(tensor) == \A k \in 1 .. parts : tensor[k] = <<cur, k>>

Init == /\ phase = "idle" /\ cur = 0 /\ parts = 1
        /\ out = [b \in Bufs |-> [k \in Parts |-> None]]

Begin == /\ phase = "idle" /\ cur < MaxCalls
         /\ phase' = "busy" /\ cur' = cur + 1 /\ parts' \in Parts
         /\ UNCHANGED out

\* Inside the call its tensor may hold anything, the other tensors may not change.
OnlyCurrent == \A b \in Bufs \ {Buf} : out'[b] = out[b]

Work == phase = "busy" /\ OnlyCurrent /\ UNCHANGED <<phase, cur, parts>>

Return == /\ phase = "busy" /\ OnlyCurrent /\ Right(out'[Buf])
          /\ phase' = "idle" /\ UNCHANGED <<cur, parts>>

Next == Begin \/ Work \/ Return

Spec == Init /\ [][Next]_vars
=============================================================================
