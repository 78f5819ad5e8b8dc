------------------------------- MODULE Uploads -------------------------------
(***************************************************************************)
(* A file on its way to X, YouTube or TikTok, piece by piece, once the     *)
(* network has said where to send it (that request, and what comes after   *)
(* the upload, are in Calls).  X numbers its pieces; YouTube and TikTok go *)
(* by the range of bytes; only YouTube says how much of it arrived.        *)
(* A file keeps its length meanwhile: X's loop adds up what Media.piece    *)
(* gave it, and of one cut short on disk that is nothing, for ever.        *)
(*                                                                         *)
(* Bytes are counted in units; a network holds the first `have` of them.   *)
(***************************************************************************)
EXTENDS Integers

CONSTANTS
  Sizes,           \* how big files are
  Chunks,          \* what apps give as chunk_bytes
  MinChunk,        \* TikTok: MIN_CHUNK_BYTES
  MaxChunk,        \* TikTok: MAX_CHUNK_BYTES
  Multiple,        \* YouTube: CHUNK_MULTIPLE
  Attempts,        \* Retries.attempts
  ResendsAllowed,  \* YouTube: resends_allowed
  MaxFaults        \* bound: misfortunes of one behaviour

ASSUME UploadsAssumption ==
  /\ Sizes \subseteq Nat /\ Chunks \subseteq Nat
  /\ MinChunk \in Nat \ {0} /\ MaxChunk \in Nat /\ MinChunk <= MaxChunk
  /\ Multiple \in Nat \ {0} /\ Attempts \in Nat \ {0}
  /\ ResendsAllowed \in Nat /\ MaxFaults \in Nat

VARIABLES
  net, total, chunk,  \* which network, how big the file, chunk_bytes
  piece,      \* X: segment; TikTok: index
  sent,       \* X and YouTube: the byte to carry on from
  inhand,     \* the next piece is read off the disk (Media.piece)
  resends,    \* YouTube: answers in a row without progress
  tries,      \* failures of the request under way (HttpClient.request)
  ended,      \* "sending", or how it ended
  have,       \* how many bytes, from the first, the network holds
  parts,      \* X: how many segments it holds
  said,       \* history: what YouTube last said it holds
  idle,       \* history: answers in a row in which that was no more than before
  befell,     \* history: the misfortunes that happened
  faults      \* and how many

file == <<net, total, chunk>>
client == <<piece, sent, inhand, resends, tries, ended>>
network == <<have, parts>>
vars == <<file, client, network, said, idle, befell, faults>>

Least(a, b) == IF a <= b THEN a ELSE b
Greatest(a, b) == IF a <= b THEN b ELSE a

-----------------------------------------------------------------------------
\* What the platforms check of chunk_bytes when they are made.
ChunkAllowed(network_, c) ==
  CASE network_ = "x" -> c > 0
    [] network_ = "youtube" -> c > 0 /\ c % Multiple = 0
    [] network_ = "tiktok" -> MinChunk <= c /\ c <= MaxChunk

\* TikTok is told the size of a piece and how many there are: rounded down, and
\* the rest rides on the last one.
ChunkPlan_RoundedUp(bytes, wanted) ==
  IF bytes < MinChunk THEN [size |-> bytes, count |-> 1]
  ELSE LET size == Least(wanted, bytes)
       IN  [size |-> size, count |-> (bytes + size - 1) \div size]
ChunkPlan(bytes, wanted) ==
  IF bytes < MinChunk THEN [size |-> bytes, count |-> 1]
  ELSE LET size == Least(wanted, bytes) IN [size |-> size, count |-> bytes \div size]

\* The bytes of the next piece.
NextBytes == [first |-> sent, last |-> Least(sent + chunk, total) - 1]
TikTokBytes_NothingLeftOver ==
  LET plan == ChunkPlan(total, chunk)
  IN  [first |-> piece * plan.size, last |-> piece * plan.size + plan.size - 1]
TikTokBytes ==
  LET plan == ChunkPlan(total, chunk)
  IN  [first |-> piece * plan.size,
       last |-> IF piece = plan.count - 1 THEN total - 1
                ELSE piece * plan.size + plan.size - 1]
Bytes == IF net = "tiktok" THEN TikTokBytes ELSE NextBytes
Length == Bytes.last - Bytes.first + 1

Sending == ended = "sending"
More == IF net = "tiktok" THEN piece < ChunkPlan(total, chunk).count ELSE sent < total

-----------------------------------------------------------------------------
Init ==
  /\ net \in {"x", "youtube", "tiktok"}
  /\ total \in Sizes
  /\ chunk \in {c \in Chunks : ChunkAllowed(net, c)}
  /\ piece = 0 /\ sent = 0 /\ inhand = FALSE /\ resends = 0 /\ tries = 0
  /\ ended = "sending"
  /\ have = 0 /\ parts = 0
  /\ said = 0 /\ idle = 0 /\ befell = {} /\ faults = 0

\* What the network may hold after a piece: YouTube may take part of one, or
\* none of it; one that starts beyond what it holds is of no use; a segment
\* whose number it has is the same again.
ByNumber == IF piece = parts THEN have + Length ELSE have
ByRange(last) == IF Bytes.first <= have THEN Greatest(have, last + 1) ELSE have
HoldsAfter ==
  CASE net = "x" -> {ByNumber}
    [] net = "tiktok" -> {ByRange(Bytes.last)}
    [] net = "youtube" -> {ByRange(last) : last \in Bytes.first - 1..Bytes.last}

Take(holds) ==
  /\ have' = holds
  /\ parts' = IF net = "x" /\ piece = parts THEN parts + 1 ELSE parts

-----------------------------------------------------------------------------
ReadPiece ==
  /\ Sending /\ More /\ ~inhand
  /\ inhand' = TRUE
  /\ UNCHANGED <<file, piece, sent, resends, tries, ended, network, said, idle, befell,
                 faults>>

\* X and TikTok: the request went well, and the next piece is next.
SendToX ==
  /\ Sending /\ net = "x" /\ inhand
  /\ \E holds \in HoldsAfter : Take(holds)
  /\ sent' = sent + Length
  /\ piece' = piece + 1
  /\ inhand' = FALSE /\ tries' = 0
  /\ UNCHANGED <<file, resends, ended, said, idle, befell, faults>>

SendToTikTok ==
  /\ Sending /\ net = "tiktok" /\ inhand
  /\ \E holds \in HoldsAfter : Take(holds)
  /\ piece' = piece + 1
  /\ inhand' = FALSE /\ tries' = 0
  /\ UNCHANGED <<file, sent, resends, ended, said, idle, befell, faults>>

\* YouTube has it all, and answers with the video.
Complete ==
  /\ Sending /\ net = "youtube" /\ inhand
  /\ total \in HoldsAfter /\ Take(total)
  /\ ended' = "done"
  /\ UNCHANGED <<file, piece, sent, inhand, resends, tries, said, idle, befell, faults>>

\* It says how much of it arrived (308), which may be less than before; if that
\* is all of it, and it still does not answer with the video, something is
\* wrong at YouTube.
ArrivedSoFar_AsSent(holds) == Bytes.last + 1
ArrivedSoFar(holds) == holds
NoProgress_OnlyBack(arrived) == arrived < sent
NoProgress(arrived) == arrived <= sent
CarryOn ==
  /\ Sending /\ net = "youtube" /\ inhand
  /\ \E holds \in HoldsAfter :
       LET arrived == ArrivedSoFar(holds) IN
       /\ Take(holds)
       /\ sent' = arrived
       /\ resends' = IF NoProgress(arrived) THEN resends + 1 ELSE 0
       /\ ended' = IF NoProgress(arrived) /\ resends + 1 > ResendsAllowed THEN "stalled"
                   ELSE ended
       /\ said' = holds
       /\ idle' = IF holds <= said THEN Least(idle + 1, ResendsAllowed + 1) ELSE 0
       /\ IF holds = total
          THEN faults < MaxFaults /\ faults' = faults + 1 /\ befell' = befell \cup {"undecided"}
          ELSE UNCHANGED <<faults, befell>>
  /\ inhand' = FALSE /\ tries' = 0
  /\ UNCHANGED <<file, piece>>

\* All of it is sent.  X is told so; TikTok knows; YouTube never answered with
\* the video.
Finalize ==
  /\ Sending /\ net = "x" /\ ~More
  /\ ended' = "done"
  /\ UNCHANGED <<file, piece, sent, inhand, resends, tries, network, said, idle, befell,
                 faults>>

StopTikTok ==
  /\ Sending /\ net = "tiktok" /\ ~More
  /\ ended' = "done"
  /\ UNCHANGED <<file, piece, sent, inhand, resends, tries, network, said, idle, befell,
                 faults>>

StopYouTube ==
  /\ Sending /\ net = "youtube" /\ ~More
  /\ ended' = "failed"
  /\ UNCHANGED <<file, piece, sent, inhand, resends, tries, network, said, idle, befell,
                 faults>>

-----------------------------------------------------------------------------
Befall(what) ==
  /\ faults < MaxFaults
  /\ faults' = faults + 1
  /\ befell' = befell \cup {what}

Requesting == Sending /\ (inhand \/ (net = "x" /\ ~More))

\* HttpClient.request tries again until the attempts are used up.
TryAgain ==
  /\ IF tries + 1 < Attempts THEN tries' = tries + 1 /\ UNCHANGED ended
     ELSE ended' = "failed" /\ UNCHANGED tries
  /\ UNCHANGED <<piece, sent, inhand, resends>>

\* The request does not arrive, or is answered with 429 or 5xx.
LoseRequest ==
  /\ Requesting
  /\ Befall("lost")
  /\ TryAgain
  /\ UNCHANGED <<file, network, said, idle>>

\* It arrives, or some of it does, and the answer is lost.
LoseReply ==
  /\ Sending /\ inhand
  /\ Befall("lost")
  /\ \E holds \in HoldsAfter : Take(holds)
  /\ TryAgain
  /\ UNCHANGED <<file, said, idle>>

Refuse ==
  /\ Requesting
  /\ Befall("refused")
  /\ ended' = "failed"
  /\ UNCHANGED <<file, piece, sent, inhand, resends, tries, network, said, idle>>

\* YouTube drops some of what it had said it holds.
Forget ==
  /\ Sending /\ net = "youtube" /\ have < total
  /\ Befall("forgot")
  /\ have' \in 0..have - 1
  /\ UNCHANGED <<file, client, parts, said, idle>>

Ended == ~Sending /\ UNCHANGED vars

Step == ReadPiece \/ SendToX \/ SendToTikTok \/ Complete \/ CarryOn
        \/ Finalize \/ StopTikTok \/ StopYouTube
Next == Step \/ LoseRequest \/ LoseReply \/ Refuse \/ Forget \/ Ended

Spec == Init /\ [][Next]_vars

\* Requests are answered; what goes wrong goes wrong so many times.
FairSpec == Spec /\ WF_vars(Step)

-----------------------------------------------------------------------------
FileOK ==
  /\ net \in {"x", "youtube", "tiktok"}
  /\ total \in Sizes
  /\ chunk \in {c \in Chunks : ChunkAllowed(net, c)}
CountsOK ==
  /\ piece \in Nat /\ parts \in Nat
  /\ sent \in 0..total /\ have \in 0..total /\ said \in 0..total
  /\ resends \in 0..ResendsAllowed + 1 /\ idle \in 0..ResendsAllowed + 1
  /\ tries \in 0..Attempts - 1
  /\ faults \in Nat
TypeOK ==
  /\ FileOK /\ CountsOK
  /\ inhand \in BOOLEAN
  /\ ended \in {"sending", "done", "failed", "stalled"}
  /\ befell \subseteq {"lost", "refused", "forgot", "undecided"}

\* A file is told done only when the network holds every byte of it, each in
\* its place: a piece that is sent again, an answer that goes back, and what is
\* left over by the division change nothing of that (_send_video, _upload).
DoneIsWhole == ended = "done" => have = total

\* No piece is one the network turns down: YouTube's end at a multiple of 256 KB
\* or with the file; TikTok's are no smaller than its floor unless the file is,
\* no bigger than its ceiling, but for the last one, which is less than two of
\* them; and there are as many as it was told (_chunk_plan).
PiecesAreTaken ==
  (Sending /\ More) =>
    /\ net = "youtube" => Length % Multiple = 0 \/ Bytes.last = total - 1
    /\ net = "tiktok" =>
         /\ Length >= MinChunk \/ Length = total
         /\ \/ Length <= MaxChunk
            \/ Bytes.last = total - 1 /\ Length < 2 * ChunkPlan(total, chunk).size
         /\ Bytes.last <= total - 1

\* It fails only for a reason: something was lost or refused, or YouTube never
\* answered with the video, as it cannot for an empty one; and it is given up
\* as dropped on the way only after more answers in a row than resends_allowed
\* in none of which anything new had arrived.
FailsForACause ==
  /\ ended = "failed" =>
       befell \cap {"lost", "refused", "undecided"} # {} \/ (net = "youtube" /\ total = 0)
  /\ ended = "stalled" => idle > ResendsAllowed

\* Every upload ends, however often YouTube says that nothing arrived.
Ends == <>(ended # "sending")
=============================================================================
