------------------------ MODULE MCNativeWorkerPool ------------------------
(* Instance of NativeWorkerPool for TLC: its constants are numbers, which  *)
(* the configurations give. The threads have ranges by index: no symmetry. *)
EXTENDS NativeWorkerPool
=============================================================================
