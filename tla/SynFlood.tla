----------------------------------- MODULE SynFlood -----------------------------------
(***********************************************************************************)
(* The attackers of the ns-3 scenarios: TcpSynFloodSocket, as an on-off application   *)
(* uses it.  Each socket floods its peer and records, in a file named after the peer,   *)
(* when a burst of packets begins.  The attackers of a scenario share their peer, and   *)
(* so the file; but every socket has a stream of its own, with its own buffer and its   *)
(* own position, and what it has recorded gets into the file when it is closed.         *)
(*                                                                                  *)
(* A character of the file is [at, digit]: the digit-th one of the number `at'.        *)
(***********************************************************************************)
EXTENDS Integers, Sequences, SequencesExt, FiniteSetsExt

CONSTANTS
  Sockets,
  Peers,
  Routed,           \* the sockets on a node that has a route to its peer
  Randomize,        \* m_randomizeSourceAddress, for the whole scenario
  TicksInSecond,    \* of the simulated clock
  Gap,              \* 0.1 s, in ticks
  MaxTime, MaxSends \* bounds: of the simulation, and of the packets of a socket

ASSUME FloodAssumption ==
  /\ {TicksInSecond, Gap} \subseteq Nat \ {0}
  /\ {MaxTime, MaxSends} \subseteq Nat
  /\ Routed \subseteq Sockets
  /\ Randomize \in BOOLEAN

VARIABLES
  now,              \* Simulator::Now()
  peer,             \* the remote of each application
  status,           \* "created", "connected" or "closed"
  local,            \* m_endPoint->GetLocalAddress()
  sent,             \* the packets of each socket: [at, source]; m_seq is their number
  m_lastAttackTime,
  record,           \* what each stream has buffered: a sequence of times
  file,             \* attack_times_<peer>.txt, a sequence of characters
  closers           \* the sockets closed since the file was last created

floodVars == <<now, peer, status, local, sent, m_lastAttackTime, record, file, closers>>

NoAddress == "none"      \* the local address of a new end point
Random == "random"       \* one drawn by m_srcAddressGenerator
-------------------------------------------------------------------------------------
\* A time as it is printed, without a separator: whole seconds are shorter.  The characters
\* before the n-th of the times that are printed tell where it begins.
Width(t) == IF t % TicksInSecond = 0 THEN 1 ELSE 2
Before(times, n) ==
  Cardinality({c \in (1 .. n - 1) \X {1, 2} : c[2] <= Width(times[c[1]])})
Text(times) ==
  [c \in 1 .. Before(times, Len(times) + 1) |->
     LET n == CHOOSE k \in 1 .. Len(times) : Before(times, k) < c /\ c <= Before(times, k + 1)
     IN  [at |-> times[n], digit |-> c - Before(times, n)]]

\* A stream writes from the beginning of the file; what is behind its end stays.
Appended(old, new) == old \o new   \* mistake: as with std::ios::app
Overlaid(old, new) == new \o SubSeq(old, Len(new) + 1, Len(old))

InitFlood ==
  /\ now = 0
  /\ peer \in [Sockets -> Peers]
  /\ status = [s \in Sockets |-> "created"]
  /\ local = [s \in Sockets |-> NoAddress]
  /\ sent = [s \in Sockets |-> << >>]
  /\ m_lastAttackTime = [s \in Sockets |-> 0]
  /\ record = [s \in Sockets |-> << >>]
  /\ file = [p \in Peers |-> << >>]
  /\ closers = [p \in Peers |-> << >>]

\* Connect() creates the file anew, whatever the attribute SaveAttackTimes says, and
\* reports success even if SetupEndpoint() found no route and no local address.
Connect(s) ==
  /\ status[s] = "created"
  /\ status' = [status EXCEPT ![s] = "connected"]
  /\ local' = [local EXCEPT ![s] = IF s \in Routed THEN s ELSE @]
  /\ file' = [file EXCEPT ![peer[s]] = << >>]
  /\ closers' = [closers EXCEPT ![peer[s]] = << >>]
  /\ UNCHANGED <<now, peer, sent, m_lastAttackTime, record>>

\* The time of a packet is recorded if the last one was long enough ago.
LastRecorded(s) ==   \* mistake: only the recorded packets are remembered
  IF now - m_lastAttackTime[s] > Gap THEN now ELSE m_lastAttackTime[s]
LastSent(s) == now

Send(s) ==
  /\ status[s] = "connected"
  /\ Len(sent[s]) < MaxSends
  /\ sent' = [sent EXCEPT ![s] =
                Append(@, [at |-> now, source |-> IF Randomize THEN Random ELSE local[s]])]
  /\ record' = [record EXCEPT ![s] =
                  IF now - m_lastAttackTime[s] > Gap THEN Append(@, now) ELSE @]
  /\ m_lastAttackTime' = [m_lastAttackTime EXCEPT ![s] = LastSent(s)]
  /\ UNCHANGED <<now, peer, status, local, file, closers>>

Close(s) ==
  /\ status[s] = "connected"
  /\ status' = [status EXCEPT ![s] = "closed"]
  /\ file' = [file EXCEPT ![peer[s]] = Overlaid(@, Text(record[s]))]
  /\ closers' = [closers EXCEPT ![peer[s]] = Append(@, s)]
  /\ UNCHANGED <<now, peer, local, sent, m_lastAttackTime, record>>

\* The simulator goes on to the next event.
Tick ==
  /\ now < MaxTime
  /\ now' = now + 1
  /\ UNCHANGED <<peer, status, local, sent, m_lastAttackTime, record, file, closers>>

NextFlood == Tick \/ \E s \in Sockets : Connect(s) \/ Send(s) \/ Close(s)

SpecFlood == InitFlood /\ [][NextFlood]_floodVars
-------------------------------------------------------------------------------------
(* Properties.                                                                       *)

Times(s) == {sent[s][n].at : n \in 1 .. Len(sent[s])}

\* A socket has recorded, in order and once each, the times at which it sent a packet
\* after having sent none for longer than the gap; the first packet of all is only
\* recorded if the simulation was older than the gap.
OnsetsExact ==
  \A s \in Sockets :
    LET onsets == {t \in Times(s) : \A u \in Times(s) \cup {0} : u < t => t - u > Gap} \ {0}
    IN  /\ ToSet(record[s]) = onsets
        /\ \A m, n \in 1 .. Len(record[s]) : m < n => record[s][m] < record[s][n]

\* Although the streams of many attackers write over each other, the file is the record
\* of the one that was closed last, unless a longer record was closed before it; then it
\* begins with that record and goes on with the end of a longer one.
FileOfLastCloser ==
  \A p \in Peers :
    LET last == Len(closers[p])  TextOf(n) == Text(record[closers[p][n]])
    IN  /\ last > 0 => IsPrefix(TextOf(last), file[p])
        /\ Len(file[p]) = Max({0} \cup {Len(TextOf(n)) : n \in 1 .. last})

=====================================================================================
