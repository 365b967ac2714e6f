----------------------------- MODULE MCGateway -----------------------------
(* The gateway on every file of at most two packets, recorded in any order   *)
(* within two seconds of four units each, where the last may be a record of  *)
(* size 0, and on files of three packets where any may be.                   *)
EXTENDS Gateway

Packet(time) == [time |-> time, size |-> 1]
NoBytes(time) == [time |-> time, size |-> 0]

MCFiles ==
    UNION { [1 .. n -> { Packet(t) : t \in {0, 1, 3, 6} }] : n \in 0 .. 2 }
      \cup { <<NoBytes(0)>>, <<Packet(0), NoBytes(3)>>,
             <<Packet(1), Packet(3), Packet(6)>>,
             <<Packet(3), Packet(1), Packet(6)>>,
             <<NoBytes(1), Packet(3), Packet(6)>>,
             <<Packet(3), NoBytes(1), Packet(6)>>,
             <<Packet(1), NoBytes(3), NoBytes(6)>> }
=============================================================================
