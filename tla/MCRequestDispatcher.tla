------------------------ MODULE MCRequestDispatcher ------------------------
(* Three calls on one response topic; the first and the last ask with the *)
(* same correlation data.                                                  *)
EXTENDS RequestDispatcher, TLC

SharedTopic == <<"t", "t", "t">>
Correlations == <<1, 2, 1>>
=============================================================================
