------------------------------ MODULE Streaming ------------------------------
(***************************************************************************)
(* Both ends of a streamed run: the compute service that puts the events   *)
(* out (ComputeService) and the route that records them (RunRecorder).     *)
(* What passes between them is the log in order, its end and a cause: the  *)
(* one end promises it in StreamIsTrue, the other takes any such stream,   *)
(* and one that breaks anywhere.  A behaviour therefore follows one end.   *)
(***************************************************************************)
EXTENDS RunRecorder, ComputeService

VARIABLE end   \* the end that is followed

streamVars == <<vars, serviceVars, end>>

\* The other end has nothing to do: no run to record, or no request to answer.
StreamInit ==
  /\ end \in {"route", "service"}
  /\ IF end = "route" THEN Init ELSE NoRun
  /\ ServiceInit
StreamNext ==
  /\ UNCHANGED end
  /\ \/ end = "route" /\ Next /\ UNCHANGED serviceVars
     \/ end = "service" /\ ServiceNext /\ UNCHANGED vars

Spec == StreamInit /\ [][StreamNext]_streamVars /\ RouteFairness /\ ServiceFairness
-----------------------------------------------------------------------------
(* No run stays RUNNING and no slot stays out, however a stream stalls,       *)
(* breaks or is left: see RunEnds and SlotsReturn.                            *)
StreamsEnd == <>[](RunEnds /\ SlotsReturn)
=============================================================================
