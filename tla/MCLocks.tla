------------------------------ MODULE MCLocks --------------------------------
(* A calling thread, a second thread that is another caller, the receiver   *)
(* or the flush thread, and a third one that only ever writes to the array  *)
(* of boards, so that readers may have to wait behind it.                   *)
EXTENDS Locks, LockPaths

MCThread == {"caller", "other", "writer"}
MCProgram ==
  [t \in MCThread |->
     CASE t = "caller" -> Getters \cup Setters
       [] t = "other" -> Getters \cup Setters \cup Received
       [] t = "writer" -> bidib_state_node_new]
=============================================================================
