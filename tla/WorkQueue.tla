----------------------------- MODULE WorkQueue -----------------------------
(***************************************************************************)
(* What both tables that serve as queues promise, jobs to the message pool *)
(* and client_webhook_queue to the webhook pool: an item is given to one   *)
(* worker at a time, only a worker that holds it gives it back or ends it, *)
(* and an item that is done is never given out again.  An item whose       *)
(* holder is gone (a kill, a failing statement) stays taken: the queue     *)
(* does not promise to give it to another.                                 *)
(***************************************************************************)
CONSTANTS Items, Workers

VARIABLES
  state,     \* what the table says of each item
  holders    \* the workers that have the item in hand

vars == <<state, holders>>

Init ==
  /\ state = [i \in Items |-> "absent"]
  /\ holders = [i \in Items |-> {}]

----------------------------------------------------------------------------
Moves(i, from, to) == state[i] = from /\ state' = [state EXCEPT ![i] = to]

Put(i) == Moves(i, "absent", "waiting") /\ UNCHANGED holders

Take(i, w) ==
  /\ holders[i] = {}
  /\ Moves(i, "waiting", "taken")
  /\ holders' = [holders EXCEPT ![i] = {w}]

\* The item is marked as taken, but no worker gets it.
TakeInVain(i) == Moves(i, "waiting", "taken") /\ UNCHANGED holders

\* The holder ends its work on the item.
Release(i, w, to) ==
  /\ w \in holders[i]
  /\ Moves(i, "taken", to)
  /\ holders' = [holders EXCEPT ![i] = {}]

\* The holder is gone; what it has not recorded is lost.
LetGo(i, w) ==
  /\ w \in holders[i]
  /\ holders' = [holders EXCEPT ![i] = {}]
  /\ UNCHANGED state

\* The process ends, and every holder with it.
LetAllGo ==
  /\ holders' = [i \in Items |-> {}]
  /\ UNCHANGED state

Next ==
  \/ \E i \in Items, w \in Workers :
       Take(i, w) \/ Release(i, w, "waiting") \/ Release(i, w, "done") \/ LetGo(i, w)
  \/ \E i \in Items : Put(i) \/ TakeInVain(i)
  \/ LetAllGo

Spec == Init /\ [][Next]_vars

=============================================================================
