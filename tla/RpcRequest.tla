----------------------------- MODULE RpcRequest -----------------------------
(***************************************************************************)
(* HccRpcPostRequest (HccApi.cpp): the request is signed with a chain of   *)
(* HMACs and sent; the body of the answer comes in pieces, each appended   *)
(* to a vector by a callback of libcurl; then the HTTP status is turned    *)
(* into one of HCC_RPC_STATUS, and the body is copied out.                 *)
(***************************************************************************)
EXTENDS Naturals, Sequences

CONSTANTS
  HttpCodes,   \* the HTTP status codes the service answers with
  MaxPieces    \* bound: pieces of a body

ASSUME PiecesAssumption == MaxPieces \in Nat

VARIABLES
  postPc,      \* where the call is
  wanted,      \* ResponseJsonString is not nullptr
  links,       \* what the key in the chain of HMACs was derived from
  link,        \* the next link of the chain
  answer,      \* the service's answer: its code, and the pieces of its body
  body,        \* ResponseJson: the pieces that have arrived
  response,    \* *ResponseJsonString: the pieces copied, and how they end
  status       \* what the call returns

postVars == << postPc, wanted, links, link, answer, body, response, status >>

None == "none"
NoAnswer == [code |-> 0, pieces |-> 0]

PostInit ==
  /\ postPc = "none"
  /\ wanted = TRUE
  /\ links = << "prefix and secret" >> /\ link = 1
  /\ answer = NoAnswer
  /\ body = << >>
  /\ response = [text |-> << >>, end |-> None]
  /\ status = None

PostReturn(s) == postPc' = "returned" /\ status' = s

-----------------------------------------------------------------------------
\* A missing string is refused; the other calls sign what they are given.
PostBegin ==
  /\ postPc = "none"
  /\ \/ PostReturn("INVALID_ARGUMENT")
     \/ postPc' = "sign" /\ UNCHANGED status
  /\ wanted' \in BOOLEAN
  /\ UNCHANGED << links, link, answer, body, response >>

Chain == << "date", "access token", "suffix", "string to sign" >>

\* Seeded fault: a link that fails is left out.
SkipLink == links

NoKey == << >>

\* HccComputeHmacSha256 refuses an empty key, so a key that could not be had
\* is none for the rest of the chain; it also refuses an empty text, as an
\* access token may be.
Sign ==
  /\ postPc = "sign"
  /\ \/ links # << >> /\ links' = Append(links, Chain[link])
     \/ links' = NoKey
  /\ link' = link + 1
  /\ postPc' = IF link = Len(Chain) THEN "send" ELSE "sign"
  /\ UNCHANGED << wanted, answer, body, response, status >>

PostFails ==
  /\ postPc \in {"send", "receive"}
  /\ PostReturn("INTERNAL")
  /\ UNCHANGED << wanted, links, link, answer, body, response >>

\* The service answers, whatever it makes of the signature.
PostSend ==
  /\ postPc = "send"
  /\ \E c \in HttpCodes, n \in 0 .. MaxPieces : answer' = [code |-> c, pieces |-> n]
  /\ postPc' = "receive"
  /\ UNCHANGED << wanted, links, link, body, response, status >>

\* PrivateCurlOutputBufferWriteFunction.
PieceArrives ==
  /\ postPc = "receive"
  /\ Len(body) < answer.pieces
  /\ body' = Append(body, Len(body) + 1)
  /\ UNCHANGED << postPc, wanted, links, link, answer, response, status >>

\* Seeded fault: libcurl is told that the piece was taken.
PieceLost ==
  /\ postPc = "receive" /\ Len(body) < answer.pieces
  /\ body' = Append(body, 0)
  /\ UNCHANGED << postPc, wanted, links, link, answer, response, status >>

\* A piece there is no memory for clears the vector and fails the request.
NoMemoryForPiece ==
  /\ postPc = "receive" /\ Len(body) < answer.pieces
  /\ body' = << >>
  /\ PostReturn("INTERNAL")
  /\ UNCHANGED << wanted, links, link, answer, response >>

BodyEnds ==
  /\ postPc = "receive"
  /\ Len(body) = answer.pieces
  /\ postPc' = "copy"
  /\ UNCHANGED << wanted, links, link, answer, body, response, status >>

StatusOfCode ==
  [c \in HttpCodes |->
     CASE c = 200 -> "OK"
       [] c = 499 -> "CANCELLED"
       [] c = 500 -> "UNKNOWN"
       [] c = 400 -> "INVALID_ARGUMENT"
       [] c = 504 -> "DEADLINE_EXCEEDED"
       [] c = 404 -> "NOT_FOUND"
       [] c = 409 -> "ALREADY_EXISTS"
       [] c = 403 -> "PERMISSION_DENIED"
       [] c = 429 -> "RESOURCE_EXHAUSTED"
       [] c = 401 -> "UNAUTHENTICATED"
       [] c = 501 -> "UNIMPLEMENTED"
       [] c = 503 -> "UNAVAILABLE"
       [] OTHER -> "INTERNAL"]

NoCopy ==
  /\ postPc = "copy"
  /\ \/ ~wanted /\ PostReturn(StatusOfCode[answer.code])
     \/ wanted /\ PostReturn("INTERNAL")    \* no memory
  /\ UNCHANGED << wanted, links, link, answer, body, response >>

\* size() + 1 bytes are copied, the last from behind the end of the vector:
\* a terminator only if a 0 happens to lie there, or no memory at all.
Copy ==
  /\ postPc = "copy"
  /\ wanted
  /\ \E e \in {"terminated", "garbage"} : response' = [text |-> body, end |-> e]
  /\ PostReturn(StatusOfCode[answer.code])
  /\ UNCHANGED << wanted, links, link, answer, body >>

CopyCrashes ==
  /\ postPc = "copy"
  /\ wanted
  /\ postPc' = "crashed"
  /\ UNCHANGED << wanted, links, link, answer, body, response, status >>

PostNext ==
  \/ PostBegin \/ Sign \/ PostFails \/ PostSend
  \/ PieceArrives \/ NoMemoryForPiece \/ BodyEnds
  \/ NoCopy \/ Copy \/ CopyCrashes

-----------------------------------------------------------------------------
PostTypeOK ==
  /\ postPc \in {"none", "sign", "send", "receive", "copy", "returned", "crashed"}
  /\ wanted \in BOOLEAN
  /\ link \in 1 .. Len(Chain) + 1
  /\ Len(links) <= link
  /\ answer.code \in HttpCodes \cup {0} /\ answer.pieces \in 0 .. MaxPieces
  /\ Len(body) <= answer.pieces
  /\ response.end \in {None, "terminated", "garbage"}

\* A signature is over everything it is meant to be over, or there is none:
\* a step of the chain that failed does not make the key of the step before
\* it the signature of less.
SignedInFull ==
  link > Len(Chain) /\ links # << >> => links = << "prefix and secret" >> \o Chain

\* Success is reported only of an answer that says so and has arrived in
\* full, and a caller that asked for the text then has all of it; a body that
\* broke off is not mistaken for a shorter one.
SuccessIsWhole ==
  status = "OK" =>
    /\ answer.code = 200
    /\ wanted => response.text = [i \in 1 .. answer.pieces |-> i]
=============================================================================
