---------------------------------- MODULE FlowHash ----------------------------------
(* The hashes of fsd.cpp, and what fsd_insert() keeps of a packet.  The inputs are     *)
(* small enough that the int arithmetic does not overflow; proto is always 0.          *)
EXTENDS Integers

CONSTANT NumAddr   \* NUM_ADDR: the end points the flow table tells apart

ASSUME AddrAssumption == NumAddr \in Nat \ {0}

calc_hash(sip, sport, dip, dport) == (((sip * 33 + sport) * 33 + dip) * 33 + dport) * 33
calc_hash2(sip, sport) == (sip * 33 + sport) * 33 * 33

\* fsd_insert(): the numbers of the end points, the hash of the flow, and the size.
Inserted(sip, sport, dip, dport, size) ==
  [ src  |-> calc_hash2(sip, sport) % NumAddr,
    dst  |-> calc_hash2(dip, dport) % NumAddr,
    h    |-> calc_hash(sip, sport, dip, dport),
    size |-> size ]
=====================================================================================
