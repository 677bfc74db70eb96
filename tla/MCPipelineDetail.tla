-------------------------- MODULE MCPipelineDetail --------------------------
(***************************************************************************)
(* Instances of PipelineDetail for model checking: one ANTARES (or Lasair) *)
(* loop and two threads of the Pitt-Google pool; a batch of two alerts     *)
(* with a position and one without.                                        *)
(***************************************************************************)
EXTENDS PipelineDetail, TLC

CONSTANTS antares, pittgoogle, loop, thread1, thread2, obj, a1, a2, lost

MCReads == [w \in Consumers |-> IF w = loop THEN antares ELSE pittgoogle]

\* The first ANTARES message does not normalise.
LoopMalformed == {<<obj, antares, 1>>}

\* A Pitt-Google message has no readable position.
OneUnstorable == {<<obj, pittgoogle, 2>>}

\* Only a1 is in the coverage map of the second catalog.
MCFootprint == {<<a1, 1>>, <<a2, 1>>, <<a1, 2>>}
=============================================================================
