---------------------------- MODULE DurableTable ----------------------------
(***************************************************************************)
(* What the server promises about the durable state of one table: it is    *)
(* the result of a history of mutations that only grows, an ACT request    *)
(* has at most one place in it, and a request is answered "accepted" only  *)
(* with the version at which it stands there.                              *)
(***************************************************************************)
EXTENDS Naturals, Sequences

CONSTANTS Entries,      \* the mutations of a table
          Acts          \* those of them that are ACT requests of players

VARIABLES history,      \* the mutations, oldest first
          answered      \* the <<request, version>> accepted to a player

RequestOf(e) == e.id

Init == history = <<>> /\ answered = {}

Mutate(e) ==
  /\ e \in Acts => \A i \in DOMAIN history :
                      history[i] \in Acts => RequestOf(history[i]) # RequestOf(e)
  /\ history' = Append(history, e)

Answer ==
  \/ UNCHANGED answered
  \/ \E v \in DOMAIN history' :
       /\ history'[v] \in Acts
       /\ answered' = answered \cup {<<history'[v], v>>}

Next ==
  /\ (\E e \in Entries : Mutate(e)) \/ UNCHANGED history
  /\ Answer

Spec == Init /\ [][Next]_<<history, answered>>
=============================================================================
