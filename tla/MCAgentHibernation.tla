------------------------- MODULE MCAgentHibernation -------------------------
(* Two panes, an agent in each, one with a helper process; the other session *)
(* links a window of the first.                                              *)
EXTENDS AgentHibernation, TLC

CONSTANTS p1, p2, t1, t2, s1, s2, agent1, helper1, agent2

MCSessionOf == t1 :> s1 @@ t2 :> s2
MCViews == {<<s1, p1>>, <<s2, p2>>, <<s2, p1>>}
MCLaunched == agent1 :> [args |-> <<"agent", p1>>, under |-> p1]
              @@ helper1 :> [args |-> <<"helper", p1>>, under |-> p1]
              @@ agent2 :> [args |-> <<"agent", p2>>, under |-> p2]
=============================================================================
