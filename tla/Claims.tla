------------------------------- MODULE Claims -------------------------------
(***************************************************************************)
(* What the README and the comments of the repository say of a connection  *)
(* and the code does not do. Each is refuted by a run of its own; README.md*)
(* tells the shortest way there.                                           *)
(***************************************************************************)
EXTENDS MicTcp

\* README.md:53, "Établissement fiable de la connexion": accept, once called,
\* returns to its caller while the client keeps connecting.
AcceptReturns ==
    pc["server"] = "acceptlock"
      ~> (pc["server"] = "recv" \/ pc["client"] \in ClosingLabels)

\* README.md:80, "Chaque paquet envoyé attend un ACK correspondant": a message
\* for which mic_tcp_send returned msg_size is one the server accepted.
AckedMeansDelivered == Ended({"acked"}) \subseteq Range(delivered)

\* README.md:81, "synchronisé avec l'envoi via des variables de condition": with
\* nothing lost and nothing late, no message is delivered twice.
DeliveredOnce == IsInjective(delivered)

\* mictcp.c:115, "@return 0 on success, -1 on failure": mic_tcp_close returns.
CloseReturns == pc["client"] = "join" ~> pc["client"] = "closed"
=============================================================================
