------------------------------ MODULE JsonCodec -----------------------------
(***************************************************************************)
(* util/json.hpp: the decoder, a tree of nodes, the encoder of a tree, and *)
(* the encoder of C++ values (SHINE_JSON_MODEL) that makes the bodies of   *)
(* the requests to the robot.  Two uses of the program are the actions:    *)
(* comm_response hands an answer of the robot on by decoding and encoding  *)
(* it, and json_encode writes a configuration that the robot decodes.      *)
(*                                                                         *)
(* A text is a sequence of characters; "true" is one of them, for true,    *)
(* false and null, "1" for any digit, "tab" for a tab or the end of a      *)
(* line, "bell" for a form feed or a backspace and "a" for any other.      *)
(* "quote" is either quote: none is used inside the other.                 *)
(***************************************************************************)
EXTENDS Integers, Sequences, FiniteSets, SequencesExt

CONSTANTS Answers,  \* texts the robot may send
          Values    \* values the program encodes

VARIABLES text,   \* what is decoded
          node,   \* the root after decode
          ok,     \* what decode returned; nobody in the program looks
          result, \* encode of the node
          value,  \* the value text encodes, or NoValue
          pc

vars == <<text, node, ok, result, value, pc>>

NoValue == [kind |-> "none"]

Node(type, key, val, kv, arr) == [type |-> type, key |-> key, value |-> val, kv |-> kv, arr |-> arr]
Empty == Node("object", <<>>, <<>>, {}, <<>>)

----------------------------------------------------------------------------
\* The decoder.  Every parser returns ok, the position after what it has
\* read, and the node.  Past the end of a text is the terminating 0.
Result(good, pos, n) == [ok |-> good, pos |-> pos, node |-> n]
At(t, pos) == IF pos \in DOMAIN t THEN t[pos] ELSE "end"

\* skip_space: fails at the end of the text, and so do its callers.
Spaces == {"space", "tab"}
SkipSpace(t, pos) ==
    CHOOSE p \in pos .. Len(t) + 1 :
        At(t, p) \notin Spaces /\ \A q \in pos .. p - 1 : t[q] \in Spaces

\* skip_number and parse_number: a run of digits, not at the end of the text.
ParseNumber(n, t, pos) ==
    LET end == CHOOSE p \in pos .. Len(t) + 1 : At(t, p) # "1" /\ \A q \in pos .. p - 1 : t[q] = "1"
    IN  IF end > Len(t) THEN Result(FALSE, end, n)
        ELSE Result(TRUE, end, [n EXCEPT !.type = "integer", !.value = SubSeq(t, pos, end - 1)])

\* find: the first quote from pos on, or 0; Unescaped has only those with no
\* backslash before them.
Quotes(t, pos) == {p \in pos .. Len(t) : t[p] = "quote"}
Unescaped(t, pos) == {p \in Quotes(t, pos) : t[p - 1] # "backslash"}
Find(places) == IF places = {} THEN 0 ELSE Min(places)

\* parse_string: to the next quote that has no backslash before it.  The
\* value is what is between, as it stands: an escape stays an escape.
ParseString(n, t, pos) ==
    LET end == Find(Unescaped(t, pos + 1))
    IN  IF end = 0 THEN Result(FALSE, Len(t) + 1, n)
        ELSE Result(TRUE, end + 1, [n EXCEPT !.type = "string", !.value = SubSeq(t, pos + 1, end - 1)])

\* parse_symbol: "," or "}" must follow, "]" is not enough.
ParseSymbol(n, t, pos) ==
    LET next == SkipSpace(t, pos + 1)
    IN  IF At(t, next) \in {",", "}"} THEN Result(TRUE, next, [n EXCEPT !.type = "symbol", !.value = <<t[pos]>>])
        ELSE Result(FALSE, next, n)

Holds(n) == n.value # <<>> \/ n.kv # {} \/ n.arr # <<>>

\* Altered: the deque is filled from the front.
AddMember_Front(n, sub) ==
    CASE sub.key # <<>> -> IF \E m \in n.kv : m.key = sub.key THEN n ELSE [n EXCEPT !.kv = @ \cup {sub}]
      [] sub.key = <<>> /\ Holds(sub) -> [n EXCEPT !.arr = <<sub>> \o @]
      [] OTHER -> n

\* What parse_object does with a member: one without a key and without
\* anything in it is dropped, and of two with one key the first stays.
AddMember(n, sub) ==
    CASE sub.key # <<>> -> IF \E m \in n.kv : m.key = sub.key THEN n ELSE [n EXCEPT !.kv = @ \cup {sub}]
      [] sub.key = <<>> /\ Holds(sub) -> [n EXCEPT !.arr = Append(@, sub)]
      [] OTHER -> n

RECURSIVE ParseType(_, _, _), ParseObject(_, _, _, _)

\* decode at e_decode_key: the key, as it stands, or the end of the object.
ParseKey(t, pos) ==
    LET start == SkipSpace(t, pos)
        end == Find(Quotes(t, start + 1))
    IN  CASE At(t, start) = "}" -> Result(TRUE, start, Empty)
          [] At(t, start) = "quote" /\ end # 0 ->
                ParseType([Empty EXCEPT !.key = SubSeq(t, start + 1, end - 1)], t, end + 1)
          [] OTHER -> Result(FALSE, start, Empty)

\* decode at e_decode_type: the colon behind a key that is not empty, and a
\* value.  Anything unknown is no value and no error.
ParseType(n, t, pos) ==
    LET first == SkipSpace(t, pos)
        start == IF n.key = <<>> THEN first ELSE SkipSpace(t, first + 1)
        c == At(t, start)
    IN  IF At(t, first) = "end" \/ c = "end" \/ (n.key # <<>> /\ t[first] # ":") THEN Result(FALSE, first, n)
        ELSE
        CASE c = "{" -> ParseObject([n EXCEPT !.type = "object"], t, start + 1, "}")
          [] c = "[" -> ParseObject([n EXCEPT !.type = "array"], t, start + 1, "]")
          [] c = "1" -> ParseNumber(n, t, start)
          [] c = "quote" -> ParseString(n, t, start)
          [] c = "true" -> ParseSymbol(n, t, start)
          [] OTHER -> Result(TRUE, start, n)

\* parse_object: members up to the closing symbol.
ParseObject(n, t, pos, symbol) ==
    LET sub == IF symbol = "}" THEN ParseKey(t, pos) ELSE ParseType(Empty, t, pos)
        next == SkipSpace(t, sub.pos)
        with == AddMember(n, sub.node)
    IN  IF ~sub.ok THEN Result(FALSE, sub.pos, n)
        ELSE
        CASE At(t, next) = symbol -> Result(TRUE, next + 1, with)
          [] At(t, next) = "," -> ParseObject(with, t, next + 1, symbol)
          [] OTHER -> Result(FALSE, next, IF At(t, next) = "end" THEN n ELSE with)

\* json::decode.  What follows the value is not looked at.
Decode(t) == ParseType(Empty, t, 1)

----------------------------------------------------------------------------
\* The encoders.
\* encode_string: of a control character a letter is left, behind a backslash.
EncodeString(s) ==
    FlattenSeq([i \in DOMAIN s |-> CASE s[i] \in {"quote", "backslash"} -> <<"backslash", s[i]>>
                                     [] s[i] \in {"tab", "bell"} -> <<"backslash", "a">>
                                     [] OTHER -> <<s[i]>>])

Quoted(s) == <<"quote">> \o EncodeString(s) \o <<"quote">>

\* Altered: nothing between the members.
Members_NoComma(texts) == FlattenSeq(texts)

Members(texts) ==
    FlattenSeq([i \in DOMAIN texts |-> IF i = 1 THEN texts[i] ELSE <<",">> \o texts[i]])

RECURSIVE Encode(_)

\* json_node_t::encode: an object has its map alone, an array its deque.
Encode(n) ==
    LET InOrder(members) == [i \in 1 .. Len(members) |-> Encode(members[i])]
    IN  (IF n.key = <<>> THEN <<>> ELSE Quoted(n.key) \o <<":">>) \o
        CASE n.type = "string" -> Quoted(n.value)
          [] n.type = "object" -> <<"{">> \o Members(InOrder(SetToSeq(n.kv))) \o <<"}">>
          [] n.type = "array" -> <<"[">> \o Members(InOrder(n.arr)) \o <<"]">>
          [] OTHER -> n.value

RECURSIVE EncodeField(_)

\* json_encode_field: a value is an int, a string, a vector of values, or a
\* map or a struct, whose members have names.  What encodes to nothing is
\* left out, with its name or its place: an empty string, vector or map, and
\* a struct of such.
EncodeField(v) ==
    LET items == SelectSeq([i \in DOMAIN v.items |-> EncodeField(v.items[i])], LAMBDA x : x # <<>>)
        named == SelectSeq([i \in DOMAIN v.items |-> <<v.items[i][1], EncodeField(v.items[i][2])>>],
                           LAMBDA x : x[2] # <<>>)
        fields == [i \in DOMAIN named |-> Quoted(named[i][1]) \o <<":">> \o named[i][2]]
    IN  CASE v.kind = "int" -> v.items
          [] v.kind = "string" -> IF v.items = <<>> THEN <<>> ELSE Quoted(v.items)
          [] v.kind = "vector" -> IF v.items = <<>> THEN <<>> ELSE <<"[">> \o Members(items) \o <<"]">>
          [] v.kind = "map" -> IF v.items = <<>> THEN <<>> ELSE <<"{">> \o Members(fields) \o <<"}">>
          [] v.kind = "struct" -> IF fields = <<>> THEN <<>> ELSE <<"{">> \o Members(fields) \o <<"}">>

----------------------------------------------------------------------------
Init ==
    /\ text = <<>> /\ node = Empty /\ ok = FALSE /\ result = <<>> /\ value = NoValue /\ pc = "start"

\* comm_response: decode, whatever it returns, and encode; of no text none.
Relay ==
    /\ pc = "start"
    /\ \E t \in Answers :
       LET r == Decode(t) IN
        /\ text' = t /\ ok' = r.ok /\ node' = r.node
        /\ result' = IF t = <<>> THEN <<>> ELSE Encode(r.node)
    /\ pc' = "relayed" /\ UNCHANGED value

\* json_encode, and a robot that decodes as this library does.
Post ==
    /\ pc = "start"
    /\ \E v \in Values :
       LET t == EncodeField(v)
           r == Decode(t)
       IN  value' = v /\ text' = t /\ ok' = r.ok /\ node' = r.node
    /\ pc' = "posted" /\ UNCHANGED result

Next == Relay \/ Post

Spec == Init /\ [][Next]_vars

----------------------------------------------------------------------------
RECURSIVE Vanishes(_), Bare(_), Means(_, _), Ends(_), Escaped(_), Plain(_)

\* Nothing is written of v; and nothing is read of it in an array.
Vanishes(v) ==
    IF v.kind = "struct" THEN \A i \in DOMAIN v.items : Vanishes(v.items[i][2]) ELSE v.items = <<>>
Bare(v) ==
    CASE v.kind = "vector" -> \A i \in DOMAIN v.items : Bare(v.items[i])
      [] v.kind \in {"map", "struct"} -> \A i \in DOMAIN v.items : Vanishes(v.items[i][2])
      [] OTHER -> v.items = <<>>

\* The tree n says what there is of the value v: an array has what is not
\* bare of a vector, in its order, an object what does not vanish, and a
\* string has been escaped.
Means(n, v) ==
    CASE v.kind = "int" -> n.type = "integer" /\ n.value = v.items
      [] v.kind = "string" -> n.type = "string" /\ n.value = EncodeString(v.items)
      [] v.kind = "vector" ->
            LET left == SelectSeq(v.items, LAMBDA x : ~Bare(x))
            IN  /\ n.type = "array" /\ Len(n.arr) = Len(left)
                /\ \A i \in DOMAIN left : Means(n.arr[i], left[i])
      [] OTHER ->
            LET left == {i \in DOMAIN v.items : ~Vanishes(v.items[i][2])}
            IN  /\ n.type = "object" /\ Cardinality(n.kv) = Cardinality(left)
                /\ \A i \in left : \E m \in n.kv : m.key = v.items[i][1] /\ Means(m, v.items[i][2])

\* A string of v ends in a backslash.
Ends(v) ==
    CASE v.kind = "string" -> v.items # <<>> /\ Last(v.items) = "backslash"
      [] v.kind = "vector" -> \E i \in DOMAIN v.items : Ends(v.items[i])
      [] v.kind \in {"map", "struct"} -> \E i \in DOMAIN v.items : Ends(v.items[i][2])
      [] OTHER -> FALSE

\* The tree n with its strings escaped once more.
Escaped(n) ==
    Node(n.type, EncodeString(n.key), IF n.type = "string" THEN EncodeString(n.value) ELSE n.value,
         {Escaped(m) : m \in n.kv}, [i \in DOMAIN n.arr |-> Escaped(n.arr[i])])

\* A tree whose objects have no member without a key, as {"" 1} makes one,
\* and whose arrays do not end in true, false or null.
Plain(n) ==
    /\ n.type = "object" => n.arr = <<>>
    /\ n.type = "array" /\ n.arr # <<>> => Last(n.arr).type # "symbol"
    /\ \A m \in n.kv \cup Range(n.arr) : Plain(m)

\* A configuration is read as what is left of it when what is empty is taken
\* away, with its name or its place (the rows behind an empty one move up),
\* and a string with its escapes (json.hpp:144, 381, 798, 840, 1045).  Exempt
\* is a string that ends in a backslash: its end is not found.
BodyIsRead ==
    pc = "posted" /\ ~Ends(value) => IF Vanishes(value) THEN text = <<>> ELSE ok /\ Means(node, value)

\* What is handed on of an answer, whole or only the part that could be
\* decoded, is a text that says the same as that, with every escape escaped
\* once more (json.hpp:144, 381, 420, HttpServer.cpp:154).  Of a number or a
\* symbol that is no part of anything nothing is left that this library
\* would accept (125, 174).  Exempt are other trees that cannot be written.
RelayKeepsAnswer ==
    pc = "relayed" /\ text # <<>> =>
        LET again == Decode(result) IN
        IF node.type \in {"integer", "symbol"} THEN result = node.value /\ ~again.ok
        ELSE Plain(node) => again.ok /\ again.node = Escaped(node)
=============================================================================
