----------------------------- MODULE MCSseParser -----------------------------
(***************************************************************************)
(* Instances of SseParser for TLC.                                         *)
(***************************************************************************)
EXTENDS SseParser

\* A token, one with a blank line inside, one that starts with a blank, an empty
\* done.
Events ==
  {[event |-> <<"token">>, lines |-> << <<"a">> >>],
   [event |-> <<"token">>, lines |-> << <<"a">>, <<>>, <<"b">> >>],
   [event |-> <<"token">>, lines |-> << <<"blank", "a">> >>],
   [event |-> <<"done">>, lines |-> << <<>> >>]}
===============================================================================
