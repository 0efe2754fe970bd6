------------------------------- MODULE MCCapture -------------------------------
\* What is captured before anything is shipped: the runs of agents, the traces of model
\* calls, the segments of a spool, and the history files of local agents.  They share
\* nothing: each is explored while the others rest.
EXTENDS MCCaptureSpool, AgentStream, ModelStreams, LocalScan

\* The state keeps to its types, and what the processes of a spool captured is there.
CaptureIsWhole == SpoolTypeOK /\ StreamTypeOK /\ WrapperTypeOK /\ ScanTypeOK /\ CapturedIsWhole

ProducersRest == sink = [p \in Procs |-> NoSink] /\ fate = [r \in Records |-> "new"]
AgentsRest == ~agent.entered
ModelsRest == client.number = 0
ScannersRest == file = <<>> /\ rewrites = 0 /\ attempt.generation = 0 /\ source.events = <<>>

Next ==
  \/ AgentsRest /\ ModelsRest /\ ScannersRest /\ NextSpool /\ UNCHANGED <<streamVars, wrapperVars, scanVars>>
  \/ ProducersRest /\ ModelsRest /\ ScannersRest /\ StreamNext /\ UNCHANGED <<spoolVars, wrapperVars, scanVars>>
  \/ ProducersRest /\ AgentsRest /\ ScannersRest /\ WrapperNext /\ UNCHANGED <<spoolVars, streamVars, scanVars>>
  \/ ProducersRest /\ AgentsRest /\ ModelsRest /\ ScanNext /\ UNCHANGED <<spoolVars, streamVars, wrapperVars>>

Init == InitSpool /\ StreamInit /\ WrapperInit /\ ScanInit

Spec == Init /\ [][Next]_<<spoolVars, streamVars, wrapperVars, scanVars>>

Symmetry == Permutations(Terminal) \cup Permutations(Contents) \cup Permutations(Scanners)
================================================================================
