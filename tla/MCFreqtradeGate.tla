-------------------------- MODULE MCFreqtradeGate --------------------------
(* Instances of FreqtradeGate for TLC. *)
EXTENDS FreqtradeGate

MCPolicy == [symbols |-> {"a", "b"}, latency |-> 1, spread |-> 50, least |-> None, most |-> None,
             deviation |-> None]

Quote(bid, ask) == [status |-> "connected", latency |-> 1, bid |-> bid, ask |-> ask, ref |-> None]

\* A good quote, a wide one, and a ticker that is empty.
MCQuotes == {Quote(999, 1001), Quote(900, 1100),
             [status |-> "none", latency |-> 1, bid |-> None, ask |-> None, ref |-> None]}
=============================================================================
