------------------------------ MODULE Registry ------------------------------
(***************************************************************************)
(* What the C++ runtime asks of __cxa_atexit() and __cxa_finalize(): the   *)
(* destructors registered, of one function or of all, are called once      *)
(* each, the last one registered first.                                    *)
(***************************************************************************)
EXTENDS Integers

CONSTANTS Functions, Objects

VARIABLES
  live,     \* registration number -> <<function, object>>
  issued,   \* registrations so far
  mode      \* the functions being finalized, {} when none is

vars == <<live, issued, mode>>

Matching == {n \in DOMAIN live : live[n][1] \in mode}

Register ==
  /\ mode = {}
  /\ issued' = issued + 1
  /\ \E e \in Functions \X Objects :
       live' = [n \in DOMAIN live \cup {issued'} |-> IF n = issued' THEN e ELSE live[n]]
  /\ UNCHANGED mode

Begin ==
  /\ mode = {}
  /\ mode' \in {{f} : f \in Functions} \cup {Functions}
  /\ UNCHANGED <<live, issued>>

Call ==
  /\ mode # {}
  /\ \E n \in Matching :
       /\ \A m \in Matching : m <= n
       /\ live' = [m \in DOMAIN live \ {n} |-> live[m]]
  /\ UNCHANGED <<issued, mode>>

End ==
  /\ mode # {} /\ Matching = {}
  /\ mode' = {}
  /\ UNCHANGED <<live, issued>>

Init == live = <<>> /\ issued = 0 /\ mode = {}
Next == Register \/ Begin \/ Call \/ End
Spec == Init /\ [][Next]_vars

=============================================================================
