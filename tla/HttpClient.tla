----------------------------- MODULE HttpClient -----------------------------
(***************************************************************************)
(* sync_client of src/Include/http/hpp/http_client.hpp: call sends one     *)
(* request and receives one answer on a socket of its own; recv_callback   *)
(* decodes what has arrived so far.  A task calls the same client again    *)
(* when a call fails, so that the members of response (http_parser.hpp)    *)
(* live on from call to call.                                              *)
(*                                                                         *)
(* An answer is a sequence of tokens: the header and the blank line that   *)
(* ends it, then the data, as it is or cut in chunks (a size line, the     *)
(* data, a line end; the last has size 0).  The network may cut it between *)
(* any two tokens; a cut inside a token acts as one before it, since both   *)
(* find and the tests of size() then miss the token.  The data may hold a  *)
(* line end.                                                               *)
(*                                                                         *)
(* HttpProofs reads this module beside HttpServer, so the parts of the     *)
(* specification have names of their own here (ClientInit, ClientSpec).    *)
(***************************************************************************)
EXTENDS Integers, Sequences, SequencesExt

CONSTANTS Answers,     \* records: kind and parts (a sequence of data sequences)
          JunkSizes,   \* what htoi may make of text that is no size
          HeadLimit,   \* 1024: how long a header may be
          MaxCalls     \* bound: calls of one client

\* bare: it names neither a length nor chunks; broken: decode_header rejects it
Kinds == {"length", "chunked", "bare", "broken"}

\* A token: what it is and, of a size line, the size.
Tokens == [t : {"head", "end", "data", "size", "crlf"}, n : Nat]

(* A chunk has data: one of size 0 is the last.                              *)
ASSUME ClientConstants ==
    /\ \A a \in Answers :
          /\ a.kind \in Kinds /\ a.parts \in Seq(Seq(Tokens))
          /\ a.kind = "chunked" => \A i \in DOMAIN a.parts : a.parts[i] # << >>
    /\ JunkSizes \subseteq Nat /\ HeadLimit \in Nat /\ MaxCalls \in Nat

VARIABLES
    pc,        \* place in call and recv_callback
    answer,    \* history: the answer of this call
    wire,      \* its tokens that have not arrived
    buf, pos,  \* get_buf(), get_buf_pos()
    decoded,   \* is the header decoded: decode_step
    length, is_chunk, body,  \* members of response
    result,    \* what the call returned
    split,     \* history: did a piece end inside the chunks
    stale,     \* history: was is_chunk set when the call began
    calls

callVars == <<pc, answer, wire, buf, pos, decoded, length, is_chunk, body,
          result, split, stale, calls>>

Token(t, n) == [t |-> t, n |-> n]
Size(n)  == Token("size", n)
LineEnd  == Token("crlf", 0)
HeadEnd  == Token("end", 0)
HeadTokens == <<Token("head", 1), Token("head", 2), HeadEnd>>

Full(a) == FlattenSeq(a.parts)
Chunk(d) == <<Size(Len(d)), LineEnd>> \o d \o <<LineEnd>>
LastChunk == <<Size(0), LineEnd, LineEnd>>
Wire(a) ==
    HeadTokens \o IF a.kind = "chunked"
                  THEN FlattenSeq([i \in DOMAIN a.parts |-> Chunk(a.parts[i])]) \o LastChunk
                  ELSE Full(a)

(* The types, and: where recv_callback computes size() - get_buf_pos(), in   *)
(* unsigned numbers, the position is not past the end (79-101).             *)
ClientTypeOK ==
    /\ pc \in {"idle", "send", "recv", "header", "body", "chunk"}
    /\ answer \in Answers
    /\ pos \in Nat /\ length \in Nat
    /\ pc \in {"recv", "header", "body", "chunk"} => pos <= Len(buf)
    /\ decoded \in BOOLEAN /\ is_chunk \in BOOLEAN /\ split \in BOOLEAN /\ stale \in BOOLEAN
    /\ result \in {"none", "true", "false"}
    /\ calls \in 0..MaxCalls

ClientInit ==
    /\ pc = "idle"
    /\ answer \in Answers
    /\ wire = << >> /\ buf = << >> /\ body = << >>
    /\ pos = 0 /\ length = 0 /\ calls = 0
    /\ decoded = FALSE /\ is_chunk = FALSE /\ split = FALSE /\ stale = FALSE
    /\ result = "none"

response == <<length, is_chunk, body>>
decoder  == <<buf, pos, decoded>>

---------------------------------------------------------------------------
(* call                                                                    *)
Call ==
    /\ pc = "idle" /\ calls < MaxCalls
    /\ calls' = calls + 1
    /\ result' = "none"
    /\ pc' = "send"
    /\ UNCHANGED <<answer, wire, decoder, response, split, stale>>

CallReturns(value) == pc' = "idle" /\ result' = value

(* encode, connect or send fails, or a recv does: closed, a timeout.        *)
Fails ==
    /\ pc \in {"send", "recv"}
    /\ CallReturns("false")
    /\ UNCHANGED <<answer, wire, decoder, response, split, stale, calls>>

(* The request is sent; the decoder and the buffer start afresh, and so     *)
(* does response, but for is_chunk and the body.                           *)
Sent ==
    /\ pc = "send"
    /\ answer' \in Answers
    /\ wire' = Wire(answer')
    /\ buf' = << >> /\ pos' = 0 /\ decoded' = FALSE
    /\ length' = 0
    /\ split' = FALSE /\ stale' = is_chunk
    /\ pc' = "recv"
    /\ UNCHANGED <<is_chunk, body, result, calls>>

(* Does a piece that ends before rest cut the chunks before their last line. *)
CutsChunks(rest) ==
    answer.kind = "chunked" /\ Len(rest) \in 2..(Len(Wire(answer)) - Len(HeadTokens) - 1)

Recv ==
    /\ pc = "recv"
    /\ \E n \in 1..Len(wire) :
          /\ buf' = buf \o SubSeq(wire, 1, n)
          /\ wire' = SubSeq(wire, n + 1, Len(wire))
    /\ split' = (split \/ CutsChunks(wire'))
    /\ pc' = IF decoded THEN "body" ELSE "header"
    /\ UNCHANGED <<answer, pos, decoded, response, result, stale, calls>>

---------------------------------------------------------------------------
(* recv_callback                                                           *)
MoreNeeded ==
    /\ pc' = "recv"
    /\ UNCHANGED <<answer, wire, decoder, response, result, split, stale, calls>>

Has(t, from) == \E i \in (from + 1)..Len(buf) : buf[i].t = t
First(t, from) == CHOOSE i \in (from + 1)..Len(buf) :
                     buf[i].t = t /\ \A j \in (from + 1)..(i - 1) : buf[j].t # t

HeaderIncomplete ==
    /\ pc = "header" /\ ~Has("end", pos)
    /\ Len(buf) - pos < HeadLimit
    /\ MoreNeeded

HeaderTooLong ==
    /\ pc = "header" /\ ~Has("end", pos)
    /\ Len(buf) - pos >= HeadLimit
    /\ CallReturns("false")
    /\ UNCHANGED <<answer, wire, decoder, response, split, stale, calls>>

(* decode_header gives up; it may have met Transfer-Encoding before.  (The   *)
(* length it left is reset before it is read.)                             *)
HeaderRejected ==
    /\ pc = "header" /\ Has("end", pos) /\ answer.kind = "broken"
    /\ is_chunk' \in {is_chunk, TRUE}
    /\ CallReturns("false")
    /\ UNCHANGED <<answer, wire, decoder, length, body, split, stale, calls>>

HeaderDecoded ==
    /\ pc = "header" /\ Has("end", pos) /\ answer.kind # "broken"
    /\ pos' = First("end", pos)
    /\ decoded' = TRUE
    /\ length' = IF answer.kind = "length" THEN Len(Full(answer)) ELSE length
    /\ is_chunk' = (is_chunk \/ answer.kind = "chunked")
    /\ pc' = "body"
    /\ UNCHANGED <<answer, wire, buf, body, result, split, stale, calls>>

(* Altered: >= for >.                                                       *)
LengthIncomplete_OneMore ==
    /\ pc = "body" /\ ~is_chunk
    /\ length >= Len(buf) - pos
    /\ MoreNeeded

LengthIncomplete ==
    /\ pc = "body" /\ ~is_chunk
    /\ length > Len(buf) - pos
    /\ MoreNeeded

(* All that is in the buffer becomes the body.                              *)
LengthDone ==
    /\ pc = "body" /\ ~is_chunk
    /\ length <= Len(buf) - pos
    /\ body' = SubSeq(buf, pos + 1, Len(buf))
    /\ pos' = pos + length
    /\ CallReturns("true")
    /\ UNCHANGED <<answer, wire, buf, decoded, length, is_chunk, split, stale, calls>>

(* Chunks: the body begins again at every call of recv_callback, but pos    *)
(* stays behind what earlier ones have read.                               *)
ChunksBegin ==
    /\ pc = "body" /\ is_chunk
    /\ body' = << >>
    /\ pc' = "chunk"
    /\ UNCHANGED <<answer, wire, decoder, length, is_chunk, result, split, stale, calls>>

ChunkNoLine ==
    /\ pc = "chunk" /\ ~Has("crlf", pos)
    /\ MoreNeeded

(* htoi of the text before the line end.                                    *)
Sizes(text) == IF text = << >> THEN {0}
               ELSE IF text[1].t = "size" THEN {text[1].n} ELSE JunkSizes

(* The first line end from pos on, and what htoi makes of the text before it. *)
lineEnd == First("crlf", pos)
LineSizes == IF Has("crlf", pos) THEN Sizes(SubSeq(buf, pos + 1, lineEnd - 1)) ELSE {}

(* The size line is behind pos already when the chunk is found incomplete.  *)
ChunkIncomplete ==
    /\ pc = "chunk"
    /\ \E size \in LineSizes \ {0} : Len(buf) < lineEnd + size + 1
    /\ pos' = lineEnd
    /\ pc' = "recv"
    /\ UNCHANGED <<answer, wire, buf, decoded, response, result, split, stale, calls>>

(* Altered: the line end after the data is not skipped.                     *)
ChunkTaken_KeepsLineEnd ==
    /\ pc = "chunk"
    /\ \E size \in LineSizes \ {0} :
          /\ Len(buf) >= lineEnd + size + 1
          /\ body' = body \o SubSeq(buf, lineEnd + 1, lineEnd + size)
          /\ pos' = lineEnd + size
    /\ UNCHANGED <<pc, answer, wire, buf, decoded, length, is_chunk, result, split, stale, calls>>

ChunkTaken ==
    /\ pc = "chunk"
    /\ \E size \in LineSizes \ {0} :
          /\ Len(buf) >= lineEnd + size + 1
          /\ body' = body \o SubSeq(buf, lineEnd + 1, lineEnd + size)
          /\ pos' = lineEnd + size + 1
    /\ UNCHANGED <<pc, answer, wire, buf, decoded, length, is_chunk, result, split, stale, calls>>

(* pos goes past the last line end, which need not have arrived.            *)
ChunksDone ==
    /\ pc = "chunk" /\ 0 \in LineSizes
    /\ pos' = lineEnd + 1
    /\ CallReturns("true")
    /\ UNCHANGED <<answer, wire, buf, decoded, response, split, stale, calls>>

Decode == \/ HeaderIncomplete \/ HeaderTooLong \/ HeaderRejected \/ HeaderDecoded
          \/ LengthIncomplete \/ LengthDone
          \/ ChunksBegin \/ ChunkNoLine \/ ChunkIncomplete \/ ChunkTaken \/ ChunksDone

ClientNext == Call \/ Fails \/ Sent \/ Recv \/ Decode

ClientSpec == ClientInit /\ [][ClientNext]_callVars

---------------------------------------------------------------------------
(* What the decoder cannot cope with: chunks that come in several pieces,   *)
(* and is_chunk left over from an answer of chunks when this has none.     *)
Confused == split \/ (stale /\ answer.kind # "chunked")

(* An answer with a Content-Length or in chunks is never handed over short, *)
(* long or mixed with what an earlier call left, however the network cut it *)
(* and whatever failed before, unless the decoder was Confused.            *)
(* photoTask.cpp:54 decodes this body.                                     *)
BodyIsWhole ==
    (result = "true" /\ answer.kind \in {"length", "chunked"} /\ ~Confused)
        => body = Full(answer)

(* When all of an answer has arrived call does not ask for more of it, to   *)
(* run into the timeout and a retry, unless the decoder was Confused.       *)
NoWaitForMore ==
    (pc = "recv" /\ wire = << >>) => Confused

=============================================================================
