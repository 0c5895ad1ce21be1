----------------------------- MODULE MCJsonCodec ----------------------------
(***************************************************************************)
(* Values for the constants of JsonCodec.                                  *)
(***************************************************************************)
EXTENDS JsonCodec

\* An answer is an object or an array of up to MaxPieces pieces, which need
\* not fit and may not close it, or something else and up to two characters.
CONSTANT MaxPieces

q == <<"quote">>
Pieces == {<<"}">>, <<"]">>, <<",">>, <<"1">>, <<"true">>, <<"space">>, <<"{">>, <<"[">>,
           q \o <<"a">> \o q, q \o q, q \o <<"a">> \o q \o <<":">>, q \o <<"1">> \o q \o <<":">>,
           q \o <<"a", "backslash", "quote">> \o q, q \o <<"tab", "bell">> \o q}

Texts == {open \o FlattenSeq(s) : open \in {<<"{">>, <<"[">>},
                                  s \in UNION {[1 .. n -> Pieces] : n \in 0 .. MaxPieces}}
         \cup {root \o s : root \in {<<>>, <<"1">>, <<"a">>, <<"true">>, q \o <<"a">> \o q},
                           s \in UNION {[1 .. n -> {"space", "tab", ",", "}", "]", "1", "a"}] : n \in 0 .. 2}}

Number(n) == [kind |-> "int", items |-> <<n>>]
Vector(s) == [kind |-> "vector", items |-> s]
Map(s) == [kind |-> "map", items |-> s]
Struct(s) == [kind |-> "struct", items |-> s]

\* photo_config as loadphoto_config fills it, rows of cameras, and with rows
\* and cameras that are empty or have nothing but empty ones.
Camera == Map(<< <<<<"a">>, Number("1")>> >>)
Rows == {Vector(s) : s \in UNION {[1 .. n -> {Camera, Map(<<>>)}] : n \in 0 .. 2}}
Tables == {Vector(s) : s \in UNION {[1 .. n -> Rows] : n \in 0 .. 3}}
Photos == {Struct(<< <<<<"a">>, Number("1")>>, <<<<"a", "1">>, Number("1")>>,
                     <<<<"1">>, Map(<< <<<<"a">>, Struct(<< <<<<"1">>, t>> >>)>> >>)>> >>) : t \in Tables}

\* st_robot_ip.
Robots == {Struct(<< <<<<"a">>, [kind |-> "string", items |-> s]>> >>) :
              s \in UNION {[1 .. n -> {"a", "1", "quote", "backslash"}] : n \in 0 .. 3}}

TheValues == Photos \cup Robots
=============================================================================
