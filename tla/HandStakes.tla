----------------------------- MODULE HandStakes -----------------------------
(***************************************************************************)
(* What the engine promises about chips while hands are played, whatever   *)
(* the blinds, the streets, the turns and the side pots: a stack shrinks   *)
(* only by what its own player puts in, and a hand ends by giving out      *)
(* exactly what was put in, to nobody more than he can claim.              *)
(***************************************************************************)
EXTENDS Integers, FiniteSetsExt

CONSTANT Seats

VARIABLES stacks,   \* the chips of each seat
          staked,   \* what each has put into the hand
          in        \* who can win it; nobody when no hand is played

TwoOf(S) == \E p, q \in S : p # q

Init == stacks \in [Seats -> Nat] /\ staked = [p \in Seats |-> 0] /\ in = {}

(* Two of those dealt in post a blind, out of their stacks. *)
Deal ==
  /\ in = {}
  /\ in' \in SUBSET {p \in Seats : stacks[p] > 0}
  /\ staked' \in [Seats -> Nat]
  /\ \E small, big \in in' : /\ small # big
                             /\ {p \in Seats : staked'[p] > 0} = {small, big}
  /\ stacks' = [p \in Seats |-> stacks[p] - staked'[p]]
  /\ stacks' \in [Seats -> Nat]

(* Of each opponent who stayed in, as much as p put in himself; what the   *)
(* others left; and his own chips.                                         *)
Claim(stake, left, p) ==
  [q \in Seats |-> IF q \in left /\ stake[q] > stake[p] THEN stake[p] ELSE stake[q]]

(* The end of a hand with the chips in stacks and stake, and left in it.   *)
(* Who folded gets back what nobody called, at most.                       *)
GivenOut(rest, stake, left) ==
  LET won == [p \in Seats |-> stacks'[p] - rest[p]]
  IN  /\ in' = {} /\ staked' = [p \in Seats |-> 0]
      /\ stacks' = [p \in Seats |-> rest[p] + won[p]]
      /\ won \in [Seats -> Nat]
      /\ SumFunction(won) = SumFunction(stake)
      /\ \A p \in left : won[p] <= SumFunction(Claim(stake, left, p))
      /\ \A p \in Seats \ left : won[p] <= stake[p]

(* A player puts c chips in, or folds; the hand goes on or is over. *)
Play(p) ==
  /\ p \in in
  /\ \E c \in 0..stacks[p], left \in {in, in \ {p}} :
       LET rest == [stacks EXCEPT ![p] = @ - c]
           stake == [staked EXCEPT ![p] = @ + c]
       IN  /\ left = in \/ c = 0
           /\ \/ TwoOf(left) /\ stacks' = rest /\ staked' = stake /\ in' = left
              \/ GivenOut(rest, stake, left)

Next == Deal \/ \E p \in Seats : Play(p)

Spec == Init /\ [][Next]_<<stacks, staked, in>>
=============================================================================
