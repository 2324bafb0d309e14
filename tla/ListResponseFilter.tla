------------------------- MODULE ListResponseFilter -------------------------
(***************************************************************************)
(* filterListResponse: the body filter that looks, chunk by chunk, for an  *)
(* entry in the response S3 gives to a listing, and replaces the last      *)
(* chunk by junk if it has seen none, so that the XSL transformation fails *)
(* and the client gets a 404 (FOUR_O_FOUR_ON_EMPTY_BUCKET).  NGINX hands   *)
(* the response over in chunks cut anywhere; the last one may be empty.    *)
(*                                                                         *)
(* A response is a sequence of tokens.  The tags the filter looks for,     *)
(* "<Contents" and "<CommonPrefixes", are a "<C" followed by the rest of   *)
(* the name, so that a cut can go through them; anything else is text.     *)
(***************************************************************************)
EXTENDS Naturals, FiniteSets, SequencesExt

CONSTANTS Responses,    \* what S3 may answer: sequences of tokens
          Enabled       \* FOUR_O_FOUR_ON_EMPTY_BUCKET

ASSUME ResponsesAssumption ==
    \A p \in Responses : p \in Seq({"<C", "ontents", "ommonPrefixes", "text"})

VARIABLES response,     \* the whole response of S3
          handed,       \* how many of its tokens the filter has been given
          indexIsEmpty, \* $indexIsEmpty
          passed,       \* the tokens passed on, "junk" among them
          last,         \* whether the last chunk has been seen
          chunks        \* history: how many chunks there were

filterVars == <<response, handed, indexIsEmpty, passed, last, chunks>>

TagAt(s, i) == i < Len(s) /\ s[i] = "<C" /\ s[i + 1] \in {"ontents", "ommonPrefixes"}

Holds(data) == \E i \in DOMAIN data : TagAt(data, i)

Chunk(n) == SubSeq(response, handed + 1, handed + n)

FilterForgetful(n, flag) ==           \* mutant: decides on the last chunk alone
    /\ indexIsEmpty' = ~Holds(Chunk(n))
    /\ passed' = passed \o IF Enabled /\ flag /\ indexIsEmpty' THEN <<"junk">> ELSE Chunk(n)

FilterNeverSpoils(n, flag) ==         \* mutant: drops the branch of the last chunk
    /\ indexIsEmpty' = (indexIsEmpty /\ ~(Enabled /\ Holds(Chunk(n))))
    /\ passed' = passed \o Chunk(n)

Filter(n, flag) ==
    /\ indexIsEmpty' = (indexIsEmpty /\ ~(Enabled /\ Holds(Chunk(n))))
    /\ passed' = passed \o IF Enabled /\ flag /\ indexIsEmpty' THEN <<"junk">> ELSE Chunk(n)

\* The next chunk: n tokens of the response; `flag` marks the last, which
\* alone may be empty.
Receive(n, flag) ==
    /\ ~last
    /\ n > 0 \/ flag
    /\ handed + n <= Len(response)
    /\ flag => handed + n = Len(response)
    /\ Filter(n, flag)
    /\ handed' = handed + n /\ last' = flag /\ chunks' = chunks + 1
    /\ UNCHANGED response

\* The variables of the next request are new.
NextResponse ==
    /\ last
    /\ response' \in Responses
    /\ handed' = 0 /\ indexIsEmpty' = TRUE /\ passed' = << >> /\ last' = FALSE /\ chunks' = 0

FilterInit ==
    /\ response \in Responses
    /\ handed = 0 /\ indexIsEmpty = TRUE /\ passed = << >> /\ last = FALSE /\ chunks = 0

FilterNext == NextResponse \/ \E n \in 0 .. Len(response), flag \in BOOLEAN : Receive(n, flag)

FilterSpec == FilterInit /\ [][FilterNext]_filterVars

----------------------------------------------------------------------------
FilterTypeOK ==
    /\ response \in Responses /\ handed \in 0 .. Len(response)
    /\ indexIsEmpty \in BOOLEAN /\ last \in BOOLEAN
    /\ Len(passed) <= handed + 1 /\ chunks \in 0 .. Len(response) + 1

(***************************************************************************)
(* A listing without entries is a 404, however it is cut into chunks.      *)
(***************************************************************************)
EmptyIsSpoiled == last /\ Enabled /\ ~Holds(response) => "junk" \in {passed[i] : i \in DOMAIN passed}

(***************************************************************************)
(* A listing with at least as many entries as it has chunks is passed on:  *)
(* a cut goes through one tag at most, so the filter sees one in full.     *)
(* (With fewer entries than cuts, cuts inside all the tags hide them.)     *)
(***************************************************************************)
ManyEntriesPassThrough ==
    last /\ Cardinality({i \in DOMAIN response : TagAt(response, i)}) >= chunks => passed = response
=============================================================================
