------------------------- MODULE MCSessionMachines -------------------------
(* Requests of a host: begins of two files, of none, of one that is too    *)
(* long, of a name and of paths that are too long, chunks at every offset, *)
(* commits.                                                                *)
EXTENDS SessionMachines
CONSTANTS a, b, long, none, image

MCNames == {a, b, long}
MCFiles == {<<1, 2>>, <<3>>}

Of(kind, op, name, path, total, crc, offset, bytes) ==
    [kind |-> kind, op |-> op, name |-> name, path |-> path, total |-> total,
     crc |-> crc, offset |-> offset, bytes |-> bytes]

PathsOf(kind) == IF kind = "resource" THEN {image, none, LongPath, HugePath} ELSE {none}

MCRequests ==
    UNION {
        {Of(k, "begin", a, p, t, c, 0, <<>>) : p \in PathsOf(k), t \in 0..3, c \in MCFiles}
        \cup {Of(k, "begin", n, p, 1, <<3>>, 0, <<>>) : p \in PathsOf(k), n \in {b, long}}
        \cup {Of(k, "chunk", none, none, 0, <<>>, o, d) :
                o \in 0..2, d \in {<<1>>, <<2>>, <<3>>, <<1, 2>>, <<>>}}
        \cup {Of(k, "commit", none, none, 0, <<>>, 0, <<>>)} : k \in {"install", "resource"}}
=============================================================================
