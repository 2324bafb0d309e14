-------------------------- MODULE DirectoryListing --------------------------
(***************************************************************************)
(* Paginated directory listings: a client opens a directory and follows    *)
(* the "Next page" links, while the bucket may change between two pages.   *)
(* Each page is one ListObjects request: s3gateway.js builds its query     *)
(* (_s3DirQueryParams), S3 answers with entries and a NextMarker, and      *)
(* listing.xsl renders the entries and, under a guard, the link.           *)
(*                                                                         *)
(* A key is a sequence of characters, a character a number in the order    *)
(* S3 sorts them.  The listed directory is `Prefix`; the marker in a link  *)
(* is relative to it.  Sequences of at most one element stand for values   *)
(* that may be absent.                                                     *)
(***************************************************************************)
EXTENDS Naturals, FiniteSets, SequencesExt

CONSTANTS Slash,        \* the delimiter among the characters
          Prefix,       \* the directory as S3 sees it, ending in Slash
          Keys,         \* the keys the bucket may hold
          Token,        \* an opaque NextMarker, which holds Prefix in its middle
          PageSizes,    \* values of DIRECTORY_LISTING_PAGE_SIZE; 0: not set
          MaxListPageSize,  \* largest max-keys S3 can hold (2147483647 in the code)
          PageCap,      \* S3's own limit on the entries of a response (1000)
          Backends,     \* "aws", or "opaque": markers that are not keys
          MaxChanges    \* bound: changes of the bucket during a walk

ASSUME KeysAssumption ==
    /\ IsFiniteSet(Keys) /\ Keys \subseteq Seq(Nat) /\ \A k \in Keys : IsPrefix(Prefix, k)
    /\ Slash \in Nat /\ Prefix \in Seq(Nat) /\ Prefix # << >> /\ Last(Prefix) = Slash
    /\ Token \in Seq(Nat) /\ ~IsPrefix(Prefix, Token)
ASSUME SizeAssumption ==
    /\ PageCap \in Nat \ {0, 1} /\ MaxListPageSize \in Nat /\ PageCap <= MaxListPageSize
    /\ MaxChanges \in Nat /\ PageSizes \subseteq Nat

VARIABLES pageSize, backend,    \* the configuration, never changed
          bucket,               \* the keys S3 holds
          changes,              \* bound: changes so far
          walk,                 \* "closed", "asking", "reading", "ended"
          marker,               \* the client's marker, relative; << >> for none
          sent,                 \* the marker parameter of the last request
          issued,               \* the NextMarkers S3 gave during this walk
          shown,                \* the entries the pages of this walk have shown
          repeated,             \* history: those shown on more than one page
          lasting               \* history: entries there since the walk began

vars == <<pageSize, backend, bucket, changes, walk, marker, sent, issued, shown,
          repeated, lasting>>

----------------------------------------------------------------------------
(***************************************************************************)
(* S3's side: byte order, roll-up at the delimiter, the page after a       *)
(* marker.  A marker that is a rolled-up prefix leaves out what is below.  *)
(***************************************************************************)
Before(a, b) ==
    \E i \in 1 .. Len(b) : /\ \A j \in 1 .. i - 1 : j <= Len(a) /\ a[j] = b[j]
                           /\ i > Len(a) \/ a[i] < b[i]

Entry(key) ==
    LET slashes == {i \in Len(Prefix) + 1 .. Len(key) : key[i] = Slash}
    IN  IF slashes = {} THEN key
        ELSE SubSeq(key, 1, CHOOSE i \in slashes : \A j \in slashes : i <= j)

EntriesAfter(keys, from) ==
    {Entry(k) : k \in {k \in keys : /\ from # << >> => Before(from, k)
                                    /\ from # << >> /\ Last(from) = Slash => ~IsPrefix(from, k)}}

FirstOf(entries, n) == {e \in entries : Cardinality({f \in entries : Before(f, e)}) < n}

LastOf(entries) == CHOOSE e \in entries : \A f \in entries : f = e \/ Before(f, e)

----------------------------------------------------------------------------
(***************************************************************************)
(* The gateway's side.  RequestMarker: the S3 marker puts the prefix back  *)
(* in front; an empty marker is an absent one.  NextLink: what listing.xsl *)
(* puts into the link, if it renders one.                                  *)
(***************************************************************************)
MaxKeysUnbounded == IF pageSize >= 1 THEN <<pageSize>> ELSE << >>  \* mutant: no upper bound

ListMaxKeys == IF pageSize \in 1 .. MaxListPageSize THEN <<pageSize>> ELSE << >>

RequestMarkerBare == marker           \* mutant: sends the client's marker as it is

RequestMarker == IF marker = << >> THEN << >> ELSE Prefix \o marker

\* substring-after: what follows the first occurrence of Prefix, or nothing.
AfterPrefix(s) ==
    LET found == {i \in 0 .. Len(s) - Len(Prefix) : SubSeq(s, i + 1, i + Len(Prefix)) = Prefix}
    IN  IF found = {} THEN << >>
        ELSE SubSeq(s, (CHOOSE i \in found : \A j \in found : i <= j) + Len(Prefix) + 1, Len(s))

LinkUnanchored(truncated, next) ==    \* mutant: strips a prefix from anywhere
    IF truncated /\ AfterPrefix(next) # << >> THEN <<AfterPrefix(next)>> ELSE << >>

LinkEvenIfEmpty(truncated, next) ==   \* mutant: renders an empty marker too
    IF truncated /\ IsPrefix(Prefix, next) THEN <<AfterPrefix(next)>> ELSE << >>

NextLink(truncated, next) ==
    IF truncated /\ IsPrefix(Prefix, next) /\ AfterPrefix(next) # << >>
    THEN <<AfterPrefix(next)>> ELSE << >>

\* The directory's own folder object is an entry of the response, not of the page.
Shown(page) == page \ {Prefix}

Open ==
    /\ walk \in {"closed", "ended"}
    /\ walk' = "asking" /\ marker' = << >> /\ sent' = << >>
    /\ issued' = {} /\ shown' = {} /\ repeated' = {}
    /\ lasting' = {Entry(k) : k \in bucket} \ {Prefix} /\ changes' = 0
    /\ UNCHANGED <<pageSize, backend, bucket>>

(***************************************************************************)
(* One page.  S3 refuses a max-keys it cannot hold in 32 bits; the gateway *)
(* answers 404 and the walk is over.                                       *)
(***************************************************************************)
ListPage ==
    /\ walk = "asking"
    /\ sent' = RequestMarker
    /\ LET maxKeys   == IF ListMaxKeys = << >> THEN PageCap ELSE ListMaxKeys[1]
           all       == EntriesAfter(bucket, RequestMarker)
           page      == FirstOf(all, IF maxKeys < PageCap THEN maxKeys ELSE PageCap)
           truncated == page # all
           next      == IF ~truncated THEN << >>
                        ELSE IF backend = "aws" THEN LastOf(page) ELSE Token
           link      == NextLink(truncated, next)
       IN  IF maxKeys > MaxListPageSize
           THEN walk' = "ended" /\ UNCHANGED <<marker, issued, shown, repeated>>
           ELSE /\ shown'  = shown \cup Shown(page)
                /\ repeated' = repeated \cup (shown \cap Shown(page))
                /\ issued' = IF truncated THEN issued \cup {next} ELSE issued
                /\ walk'   = IF link = << >> THEN "ended" ELSE "reading"
                /\ marker' = IF link = << >> THEN marker ELSE link[1]
    /\ UNCHANGED <<pageSize, backend, bucket, changes, lasting>>

FollowLink ==
    /\ walk = "reading" /\ walk' = "asking"
    /\ UNCHANGED <<pageSize, backend, bucket, changes, marker, sent, issued, shown, repeated, lasting>>

Change ==
    /\ walk \in {"asking", "reading"} /\ changes < MaxChanges
    /\ \E k \in Keys : bucket' = IF k \in bucket THEN bucket \ {k} ELSE bucket \cup {k}
    /\ changes' = changes + 1
    /\ lasting' = lasting \cap {Entry(k) : k \in bucket'}
    /\ UNCHANGED <<pageSize, backend, walk, marker, sent, issued, shown, repeated>>

Init ==
    /\ pageSize \in PageSizes /\ backend \in Backends
    /\ bucket \in SUBSET Keys
    /\ changes = 0 /\ walk = "closed" /\ marker = << >> /\ sent = << >>
    /\ issued = {} /\ shown = {} /\ repeated = {} /\ lasting = {}

Next == Open \/ ListPage \/ FollowLink \/ Change

Spec == Init /\ [][Next]_vars

\* A gateway that answers, and a client that keeps following the links.  Only
\* ListPage ends "asking" and only FollowLink ends "reading".
FairSpec ==
    /\ Spec
    /\ WF_walk(walk = "asking" /\ walk' \in {"reading", "ended"})
    /\ WF_walk(walk = "reading" /\ walk' = "asking")

----------------------------------------------------------------------------
TypeOK ==
    /\ pageSize \in PageSizes /\ backend \in Backends
    /\ bucket \subseteq Keys /\ changes \in 0 .. MaxChanges
    /\ walk \in {"closed", "asking", "reading", "ended"}
    /\ repeated \subseteq shown /\ shown \subseteq {Entry(k) : k \in Keys} \ {Prefix}
    /\ lasting \subseteq {Entry(k) : k \in Keys}

(***************************************************************************)
(* No entry is shown on two pages of one walk, whatever is put into or     *)
(* deleted from the bucket between the pages: the marker is an entry in    *)
(* the order of the listing, so what was shown lies before every later     *)
(* page, even if it is deleted and created anew.  (The documentation is    *)
(* more cautious: it says that such entries may appear twice.)             *)
(***************************************************************************)
ShownOnce == repeated = {}

(***************************************************************************)
(* A walk that has followed every link has shown every entry that was in   *)
(* the directory from beginning to end, file or subdirectory, although S3  *)
(* rolls keys up, hides none of them behind a marker, and the gateway      *)
(* drops the folder object and moves markers in and out of the prefix.     *)
(* With a single entry per page the folder object can take the first page: *)
(* that page shows nothing and has no link, and is left out here.          *)
(***************************************************************************)
NothingSkipped ==
    walk = "ended" /\ backend = "aws" /\ (pageSize = 1 => shown # {}) => lasting \subseteq shown

(***************************************************************************)
(* Every marker the gateway sends is one that S3 issued, also with a       *)
(* backend whose markers are not keys: none is made up from a part of one. *)
(***************************************************************************)
MarkersAreIssued == sent = << >> \/ sent \in issued

(***************************************************************************)
(* Following the links comes to an end.                                    *)
(***************************************************************************)
WalkEnds == walk = "asking" ~> walk = "ended"
=============================================================================
