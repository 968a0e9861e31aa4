SPECIFICATION Spec
CONSTANTS
  server = server
  client1 = client1
  client2 = client2
  Server = server
  Clients <- MCClients
  Home <- MCHome
  Sent <- MCSent
  MaxInFlight = 2
INVARIANTS ReadsWhatPeerWrote PeerIsHeard
PROPERTY StaysWithItsPeer
