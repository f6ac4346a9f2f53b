---------------------------- MODULE MCRendezvous ----------------------------
(* Rendezvous for TLC: hosts h1, h2 and viewers with an address each.      *)
EXTENDS Rendezvous

CONSTANTS h1, h2, v1

\* Every peer has an ip of its own.
OwnIps == [c \in Conn |-> CASE c = h1 -> [ip |-> 1, tcp_port |-> 1]
                            [] c = h2 -> [ip |-> 2, tcp_port |-> 1]
                            [] OTHER  -> [ip |-> 3, tcp_port |-> 1]]

\* The hosts are behind one ip.
SharedIp == [c \in Conn |-> CASE c = h1 -> [ip |-> 1, tcp_port |-> 1]
                              [] c = h2 -> [ip |-> 1, tcp_port |-> 2]
                              [] OTHER  -> [ip |-> 3, tcp_port |-> 1]]
=============================================================================
