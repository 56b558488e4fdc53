--------------------------- MODULE MCGameSpyLists ---------------------------
(* One game server; a connection with two frames, of chat with three. *)
EXTENDS GameSpyLists

KeyOfMC == [v \in GameServer |-> CHOOSE k \in ListKey : TRUE]

\* Three lines of chat, NICK and USER and one of them again.
MaxFramesMC == [s \in Service |-> IF s = "chat" THEN 3 ELSE 2]
=============================================================================
