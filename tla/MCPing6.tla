-------------------------------- MODULE MCPing6 --------------------------------
(* icmpv6_ping() against a network that can lose, duplicate and inject.    *)
EXTENDS Ping6

\* One datagram of every kind the classification tells apart.
MCNoise6 ==
    { [EchoOf(0) EXCEPT !.id = "Foreign"],
      [EchoOf(0) EXCEPT !.type = "Other"],
      [EchoOf(0) EXCEPT !.data = "Bad"],
      [EchoOf(0) EXCEPT !.len = "Short"],
      [EchoOf(0) EXCEPT !.len = "Long"],
      [EchoOf(0) EXCEPT !.len = "Runt"],
      EchoOf(1) }

=============================================================================
