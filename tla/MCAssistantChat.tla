--------------------------- MODULE MCAssistantChat ---------------------------
(* AssistantChat with three deliveries, one of which may be cut short.      *)
EXTENDS AssistantChat, TLC

CONSTANTS m1, m2, v1, v2, alice, bob, tea

Says(i, v, s, k) == [id |-> i, conv |-> v, scope |-> s, text |-> [kind |-> k, about |-> tea]]

\* A message, its id used elsewhere by somebody else, a second message of the
\* conversation, and a stranger to the conversation.
Mail == {Says(m1, v1, alice, "chat"), Says(m1, v2, bob, "forget"),
         Says(m2, v1, alice, "remember"), Says(m2, v1, bob, "chat")}

Alike == Permutations(Calls)
=============================================================================
