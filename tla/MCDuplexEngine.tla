--------------------------- MODULE MCDuplexEngine ---------------------------
(* Instances of DuplexEngine for TLC: the environments and parameters its  *)
(* runs choose from.                                                       *)
EXTENDS DuplexEngine

(* One geometry is enough when nothing depends on a mismatch; three differ *)
(* in the rate only and in the buffer size only.                           *)
OneGeometry    == {[rate |-> 1, bytes |-> 2]}
ThreeGeometries == {[rate |-> 1, bytes |-> 2], [rate |-> 1, bytes |-> 3],
                    [rate |-> 2, bytes |-> 2]}

(* The callbacks of one direction begin whenever they like.  A prepare      *)
(* begins while the other direction is idle: the others may begin before it *)
(* has the mutex, which is when it looks at anything.                       *)
AnyTime == Ops \ {"prepare"}
=============================================================================
