----------------------------- MODULE Allocation -----------------------------
(***************************************************************************)
(* What handing out environments comes to when nobody is late: an          *)
(* environment is provided or made to order, won by a claim that has none, *)
(* secured by making the claim its owner, and taken down.  A claim is told *)
(* of an environment only when it has been secured.  No caches, locks,     *)
(* reconciles or faults: Binding is shown to implement this.               *)
(***************************************************************************)
CONSTANTS Claims, Insts, NoClaim, NoInst

VARIABLES
  stage,    \* [Insts -> Stages]
  holder,   \* [Insts -> Claims \cup {NoClaim}], for good once it is a claim
  told      \* [Claims -> Insts \cup {NoInst}]

vars == <<stage, holder, told>>

Stages == {"absent", "free", "won", "secured", "gone"}

Holds(c) == {i \in Insts : stage[i] \in {"won", "secured"} /\ holder[i] = c}

Init ==
  /\ stage = [i \in Insts |-> "absent"]
  /\ holder = [i \in Insts |-> NoClaim]
  /\ told = [c \in Claims |-> NoInst]

Provide(i) ==
  /\ stage[i] = "absent"
  /\ stage' = [stage EXCEPT ![i] = "free"]
  /\ UNCHANGED <<holder, told>>

(* One step for all that a claim must not share: a free environment, or a     *)
(* new one, goes to a claim that holds none.                                  *)
Win(c, i) ==
  /\ Holds(c) = {}
  /\ \/ stage[i] = "free" /\ stage' = [stage EXCEPT ![i] = "won"]
     \/ stage[i] = "absent" /\ stage' = [stage EXCEPT ![i] = "secured"]
  /\ holder' = [holder EXCEPT ![i] = c]
  /\ UNCHANGED told

Secure(i) ==
  /\ stage[i] = "won"
  /\ stage' = [stage EXCEPT ![i] = "secured"]
  /\ UNCHANGED <<holder, told>>

TakeDown(i) ==
  /\ stage[i] \in {"free", "won", "secured"}
  /\ stage' = [stage EXCEPT ![i] = "gone"]
  /\ UNCHANGED <<holder, told>>

(* It may be gone again by the time the claim hears of it. *)
Tell(c, i) ==
  /\ holder[i] = c /\ stage[i] \in {"secured", "gone"}
  /\ told' = [told EXCEPT ![c] = i]
  /\ UNCHANGED <<stage, holder>>

Withdraw(c) ==
  /\ told' = [told EXCEPT ![c] = NoInst]
  /\ UNCHANGED <<stage, holder>>

Next ==
  \/ \E i \in Insts : Provide(i) \/ Secure(i) \/ TakeDown(i)
  \/ \E c \in Claims, i \in Insts : Win(c, i) \/ Tell(c, i)
  \/ \E c \in Claims : Withdraw(c)

Spec == Init /\ [][Next]_vars
=============================================================================
