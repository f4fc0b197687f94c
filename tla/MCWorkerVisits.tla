--------------------------- MODULE MCWorkerVisits ---------------------------
(***************************************************************************)
(* Instances of WorkerVisits: two files, two packages and one test file.   *)
(* The run's session lives six units, the default thirty minutes, and the  *)
(* visits start at any point of it.                                        *)
(***************************************************************************)
EXTENDS WorkerVisits

\* `honoured` only matters once an elevation is granted.
MCConfigurations == {o \in Options : (o.granted => o.esm) /\ (o.honoured => o.granted)}
=============================================================================
