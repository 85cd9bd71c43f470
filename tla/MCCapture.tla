------------------------------ MODULE MCCapture ------------------------------
(* A file and a live interface; the file's time stamps go on and run       *)
(* backwards. And a file with a packet inside that is too big.             *)
EXTENDS Capture

Packet(i, ts) == [id |-> i, ts |-> ts, big |-> FALSE]
Played == <<Packet(1, 5), Packet(2, 6), Packet(3, 5), Packet(4, 6)>>
Arriving == <<[Packet(11, 1) EXCEPT !.big = TRUE], Packet(12, 1)>>
BigInside == <<Packet(1, 5), [Packet(2, 5) EXCEPT !.big = TRUE], Packet(3, 5)>>

LiveAndFile == <<Arriving, Played>>
FileWithBig == <<BigInside>>
==============================================================================
