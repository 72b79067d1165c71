---------------------------- MODULE RecentValue ----------------------------
(***************************************************************************)
(* What the readers of cached values may rely on: an answer is a value     *)
(* that was current within some window.  A value enters the window when it *)
(* becomes current and may leave it once it no longer is; what makes the   *)
(* window narrow is the mapping under which this specification is used.    *)
(***************************************************************************)

CONSTANTS Keys, Unasked

VARIABLES value,     \* value[k]: the current value
          window,    \* window[k]: the values that were current lately
          answer     \* answer[k]: the last answer since the window last moved, or Unasked

valueVars == <<value, window, answer>>

Init == \A k \in Keys : window[k] = {value[k]} /\ answer[k] = Unasked

Write(k) ==
  /\ window' = [window EXCEPT ![k] = @ \cup {value'[k]}]
  /\ value' = [value EXCEPT ![k] = value'[k]]
  /\ UNCHANGED answer

Forget ==
  /\ \A k \in Keys : window'[k] \subseteq window[k] /\ value[k] \in window'[k]
  /\ answer' = [k \in Keys |-> Unasked]
  /\ UNCHANGED value

Read(k) ==
  /\ answer'[k] \in window[k]
  /\ answer' = [answer EXCEPT ![k] = answer'[k]]
  /\ UNCHANGED <<value, window>>

Next == Forget \/ \E k \in Keys : Write(k) \/ Read(k)

Spec == Init /\ [][Next]_valueVars

=============================================================================
