---------------------------- MODULE MCCoreClient ----------------------------
EXTENDS CoreClient

MCMessages == {"update_addr", "connect_peer", "heartbeat", "server", "p2p", "relay"}
\* A client that dials and has a relay, and one that serves its TUN device.
MCConfigs == {[dial |-> TRUE, relay |-> TRUE, tun |-> FALSE],
              [dial |-> FALSE, relay |-> FALSE, tun |-> TRUE]}
=============================================================================
