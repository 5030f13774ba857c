----------------------------- MODULE MCGateway -----------------------------
(* Account on a small instance.                                             *)
EXTENDS Account, TLC

CONSTANTS
    home, work, m1, n1, p1, p2, s1, s2,   \* chats, messages and sends
    i, j, d                               \* two images and a document

MCModels == {1, 2}

\* Chat home has a message and a reply of the bot, which WhatsApp echoes; chat
\* work has a join notice and a sticker.
MCChatOf == [x \in {m1, n1, p1, p2, s1, s2} |->
               IF x \in {n1, p2, s2} THEN work ELSE home]
MCKind   == [m \in {m1, n1, p1, p2} |->
               IF m = n1 THEN "join" ELSE IF m = p1 THEN "empty" ELSE "text"]
MCParts  == [s \in {s1, s2} |-> IF s = s1 THEN <<p1>> ELSE <<p2>>]
MCDeliveries == [m \in {m1, n1, p1, p2} |-> IF m = p2 THEN 0 ELSE 1]
MCQuoteOf == i :> None @@ j :> i @@ d :> i
=============================================================================
