--------------------------- MODULE MCHTTPSession ---------------------------
EXTENDS HTTPSession
CONSTANTS th1, th2
Shape(head, body, keep, parses, data) ==
    [head |-> head, body |-> body, keep |-> keep, parses |-> parses, data |-> data]
Get    == Shape(2, 0, TRUE, TRUE, FALSE)
Post   == Shape(1, 1, TRUE, TRUE, FALSE)
Upload == Shape(1, 2, FALSE, TRUE, FALSE)
Broken == Shape(1, 1, TRUE, FALSE, FALSE)
Huge   == Shape(4, 0, TRUE, TRUE, FALSE)
Packet == Shape(2, 0, FALSE, FALSE, TRUE)
Large  == Shape(4, 0, FALSE, FALSE, TRUE)
\* A client may stop after any part of its script.
Clients ==
    {<<a, b>> : a, b \in {Post, Upload}}
        \cup {<<a, Get>> : a \in {Post, Broken, Huge, Packet, Large}}
        \cup {<<Get, Post, Upload>>}
============================================================================
