---------------------------- MODULE Uploads_proofs ----------------------------
(***************************************************************************)
(* Proofs about Uploads, for files, pieces, attempts and misfortunes of    *)
(* any number.                                                             *)
(***************************************************************************)
EXTENDS Uploads, TLAPS

\* What a platform is made with: a piece has at least one byte, and TikTok's
\* keeps TikTok's limits (the checks of __init__).
LEMMA ChunkIsPositive == TypeOK => chunk \in Nat \ {0} /\ total \in Nat
<1> SUFFICES ASSUME TypeOK PROVE chunk \in Nat \ {0} /\ total \in Nat
  OBVIOUS
<1>1. total \in Nat /\ chunk \in Nat /\ ChunkAllowed(net, chunk)
  BY UploadsAssumption DEF TypeOK, CountsOK, FileOK
<1>2. chunk > 0
  <2>1. CASE net = "x"
    BY <1>1, <2>1 DEF ChunkAllowed
  <2>2. CASE net = "youtube"
    BY <1>1, <2>2 DEF ChunkAllowed
  <2>3. CASE net = "tiktok"
    BY <1>1, <2>3, UploadsAssumption DEF ChunkAllowed
  <2> QED
    BY <2>1, <2>2, <2>3 DEF TypeOK, CountsOK, FileOK
<1> QED
  BY <1>1, <1>2

\* Division: what is left over is less than a piece.
LEMMA LeftOver ==
  ASSUME NEW n \in Nat, NEW d \in Nat \ {0}
  PROVE  /\ n \div d \in Nat
         /\ (n \div d) * d <= n
         /\ n < (n \div d) * d + d
  OBVIOUS

\* The plan: as many pieces of the size as go into the file, at least one, and
\* less than one more left over (_chunk_plan).
LEMMA PlanFits ==
  ASSUME NEW bytes \in Nat, NEW wanted \in Nat, MinChunk <= wanted
  PROVE  LET plan == ChunkPlan(bytes, wanted) IN
         /\ plan.size \in Nat /\ plan.count \in Nat \ {0}
         /\ plan.count * plan.size <= bytes
         /\ bytes < MinChunk => plan.size = bytes /\ plan.count = 1
         /\ bytes >= MinChunk =>
              /\ bytes < plan.count * plan.size + plan.size
              /\ MinChunk <= plan.size /\ plan.size <= wanted
<1> DEFINE size == Least(wanted, bytes)
<1>1. CASE bytes < MinChunk
  BY <1>1, UploadsAssumption DEF ChunkPlan
<1>2. CASE bytes >= MinChunk
  <2>1. size \in Nat \ {0} /\ MinChunk <= size /\ size <= wanted /\ size <= bytes
    BY <1>2, UploadsAssumption DEF Least
  <2>2. ChunkPlan(bytes, wanted) = [size |-> size, count |-> bytes \div size]
    BY <1>2, UploadsAssumption DEF ChunkPlan
  <2> HIDE DEF size
  <2> DEFINE count == bytes \div size
  <2>3. count \in Nat /\ count * size <= bytes /\ bytes < count * size + size
    BY <2>1, LeftOver
  <2>4. count # 0
    BY <2>1, <2>3
  <2> HIDE DEF count
  <2>5. ChunkPlan(bytes, wanted).size = size /\ ChunkPlan(bytes, wanted).count = count
    BY <2>2 DEF count
  <2> QED
    BY <1>2, <2>1, <2>3, <2>4, <2>5, UploadsAssumption
<1> QED
  BY <1>1, <1>2, UploadsAssumption

LEMMA TimesGrows ==
  ASSUME NEW a \in Nat, NEW b \in Nat, NEW d \in Nat, a <= b
  PROVE  a * d <= b * d /\ a * d \in Nat /\ b * d \in Nat
  OBVIOUS

LEMMA TimesNext ==
  ASSUME NEW a \in Nat, NEW d \in Nat
  PROVE  (a + 1) * d = a * d + d
  OBVIOUS

-----------------------------------------------------------------------------
Plan == ChunkPlan(total, chunk)

\* What the network holds goes with what was sent: all of it, or that and the
\* piece in hand, whose answer was lost.
Reached ==
  /\ net = "x" => \/ parts = piece /\ have = sent
                  \/ inhand /\ parts = piece + 1 /\ have = Bytes.last + 1
  /\ net = "tiktok" =>
       /\ piece <= Plan.count
       /\ piece < Plan.count => have = Bytes.first \/ have = Bytes.last + 1
       /\ piece = Plan.count => have = total
  /\ inhand => More

\* Why an upload fails: YouTube's own word is what is gone by.
Causes ==
  /\ net = "youtube" =>
       /\ sent = said
       /\ sent = total => total = 0 \/ "undecided" \in befell
       /\ Sending => resends = idle /\ resends <= ResendsAllowed
  /\ FailsForACause

IInv == TypeOK /\ Reached /\ DoneIsWhole /\ Causes

LEMMA TikTokPlan ==
  ASSUME TypeOK, net = "tiktok"
  PROVE  /\ Plan.size \in Nat /\ Plan.count \in Nat \ {0}
         /\ Plan.count * Plan.size <= total
         /\ total < MinChunk => Plan.size = total /\ Plan.count = 1
         /\ total >= MinChunk =>
              /\ total < Plan.count * Plan.size + Plan.size
              /\ MinChunk <= Plan.size /\ Plan.size <= chunk
         /\ chunk <= MaxChunk
<1>1. chunk \in Nat /\ total \in Nat /\ ChunkAllowed(net, chunk)
  BY UploadsAssumption DEF TypeOK, CountsOK, FileOK
<1>2. MinChunk <= chunk /\ chunk <= MaxChunk
  BY <1>1 DEF ChunkAllowed
<1> QED
  BY <1>1, <1>2, PlanFits DEF Plan

\* The next piece lies within the file.
LEMMA BytesLieInTheFile ==
  ASSUME TypeOK, More
  PROVE  /\ Bytes.first \in 0..total /\ Bytes.last \in -1..total - 1
         /\ Bytes.first <= Bytes.last + 1 /\ Length \in Nat
         /\ Length = Bytes.last - Bytes.first + 1
         /\ net # "tiktok" =>
              /\ Bytes.first = sent /\ sent < Bytes.last + 1
              /\ Bytes.last = Least(sent + chunk, total) - 1
         /\ net = "tiktok" =>
              /\ Bytes.first = piece * Plan.size /\ piece < Plan.count
              /\ piece = Plan.count - 1 => Bytes.last = total - 1
              /\ piece # Plan.count - 1 => Bytes.last + 1 = (piece + 1) * Plan.size
<1>1. total \in Nat /\ chunk \in Nat \ {0} /\ sent \in 0..total /\ piece \in Nat
  BY ChunkIsPositive DEF TypeOK, CountsOK
<1>2. CASE net # "tiktok"
  <2>1. sent < total /\ Bytes = [first |-> sent, last |-> Least(sent + chunk, total) - 1]
    BY <1>2 DEF More, Bytes, NextBytes
  <2>2. Least(sent + chunk, total) \in Nat /\ sent < Least(sent + chunk, total)
        /\ Least(sent + chunk, total) <= total
    BY <1>1, <2>1 DEF Least
  <2> QED
    BY <1>1, <1>2, <2>1, <2>2 DEF Length
<1>3. CASE net = "tiktok"
  <2>1. /\ Plan.size \in Nat /\ Plan.count \in Nat \ {0}
        /\ Plan.count * Plan.size <= total
    BY <1>3, TikTokPlan
  <2>2. piece < Plan.count
    BY <1>3 DEF More, Plan
  <2>3. Bytes = [first |-> piece * Plan.size,
                 last |-> IF piece = Plan.count - 1 THEN total - 1
                          ELSE piece * Plan.size + Plan.size - 1]
    BY <1>3 DEF Bytes, TikTokBytes, Plan
  <2> HIDE DEF Plan
  <2>4. piece + 1 <= Plan.count /\ piece + 1 \in Nat
    BY <1>1, <2>1, <2>2
  <2>5. (piece + 1) * Plan.size = piece * Plan.size + Plan.size /\ piece * Plan.size \in Nat
    BY <1>1, <2>1, TimesNext, TimesGrows
  <2>6. (piece + 1) * Plan.size <= total
    BY <1>1, <2>1, <2>4, <2>5, TimesGrows
  <2>7. /\ Bytes.first = piece * Plan.size
        /\ Bytes.last = IF piece = Plan.count - 1 THEN total - 1
                        ELSE piece * Plan.size + Plan.size - 1
    BY <2>3
  <2> QED
    BY <1>1, <1>3, <2>1, <2>2, <2>5, <2>6, <2>7 DEF Length
<1> QED
  BY <1>2, <1>3

\* What the network may hold after a piece: what it held, or more, up to where
\* the piece ends.
LEMMA HoldsNoLess ==
  ASSUME TypeOK, Reached, More, NEW holds \in HoldsAfter
  PROVE  /\ holds \in have..total
         /\ net # "youtube" => holds = Bytes.last + 1
<1>1. /\ have \in 0..total /\ total \in Nat /\ piece \in Nat /\ parts \in Nat
      /\ sent \in 0..total
  BY ChunkIsPositive DEF TypeOK, CountsOK
<1>2. /\ Bytes.first \in 0..total /\ Bytes.last \in -1..total - 1
      /\ Bytes.first <= Bytes.last + 1 /\ Length \in Nat
      /\ Length = Bytes.last - Bytes.first + 1
      /\ net # "tiktok" => Bytes.first = sent
      /\ net = "tiktok" => piece < Plan.count
  BY BytesLieInTheFile
<1>3. CASE net = "x"
  <2>1. holds = ByNumber
    BY <1>3 DEF HoldsAfter
  <2> QED
    BY <1>1, <1>2, <1>3, <2>1 DEF ByNumber, Reached
<1>4. CASE net = "tiktok"
  <2>1. holds = ByRange(Bytes.last)
    BY <1>4 DEF HoldsAfter
  <2>2. have = Bytes.first \/ have = Bytes.last + 1
    BY <1>2, <1>4 DEF Reached
  <2> QED
    BY <1>1, <1>2, <1>4, <2>1, <2>2 DEF ByRange, Greatest
<1>5. CASE net = "youtube"
  <2>1. PICK last \in Bytes.first - 1..Bytes.last : holds = ByRange(last)
    BY <1>5 DEF HoldsAfter
  <2> QED
    BY <1>1, <1>2, <1>5, <2>1 DEF ByRange, Greatest
<1> QED
  BY <1>3, <1>4, <1>5 DEF TypeOK, CountsOK, FileOK

-----------------------------------------------------------------------------
LEMMA InitHolds == Init => IInv
<1> SUFFICES ASSUME Init PROVE IInv
  OBVIOUS
<1>1. TypeOK
  <2>1. FileOK /\ total \in Nat
    BY UploadsAssumption DEF Init, FileOK
  <2>2. CountsOK
    BY <2>1, UploadsAssumption DEF Init, CountsOK
  <2> QED
    BY <2>1, <2>2 DEF Init, TypeOK
<1>2. Reached
  <2>1. CASE net = "tiktok"
    <3>1. Plan.size \in Nat /\ Plan.count \in Nat \ {0}
      BY <1>1, <2>1, TikTokPlan
    <3>2. piece = 0 /\ have = 0 /\ inhand = FALSE
      BY DEF Init
    <3>3. Bytes.first = piece * Plan.size
      BY <2>1 DEF Bytes, TikTokBytes, Plan
    <3> HIDE DEF Plan
    <3>4. Bytes.first = 0
      BY <3>1, <3>2, <3>3
    <3> QED
      BY <2>1, <3>1, <3>2, <3>4 DEF Reached
  <2> QED
    BY <2>1 DEF Init, Reached
<1>3. DoneIsWhole /\ Causes
  BY <1>1, UploadsAssumption DEF Init, DoneIsWhole, Causes, FailsForACause, TypeOK, CountsOK
<1> QED
  BY <1>1, <1>2, <1>3 DEF IInv

\* Nothing but the three of them moves the next piece.
LEMMA SameBytes ==
  ASSUME UNCHANGED <<file, piece, sent>>
  PROVE  /\ Bytes' = Bytes /\ Length' = Length /\ (More' <=> More) /\ Plan' = Plan
   BY DEF file, Bytes, NextBytes, TikTokBytes, Length, More, Plan

\* An upload that is at the same place, and knows the same, with the same held.
LEMMA Steady ==
  ASSUME IInv, TypeOK', UNCHANGED <<file, piece, sent, have, parts, said>>,
         inhand => inhand', inhand' => inhand \/ More,
         ended' = ended \/ ended' # "done",
         ended' = "sending" => ended = "sending" /\ UNCHANGED <<resends, idle>>,
         befell \subseteq befell', FailsForACause'
  PROVE  IInv'
<1>1. Bytes' = Bytes /\ (More' <=> More) /\ Plan' = Plan
  BY SameBytes
<1>2. Reached'
  BY <1>1 DEF IInv, Reached, file
<1>3. DoneIsWhole'
  BY DEF IInv, DoneIsWhole, file
<1>4. Causes'
  BY DEF IInv, Causes, file, Sending
<1> QED
  BY <1>2, <1>3, <1>4 DEF IInv

\* The file stays the file.
LEMMA SameFile ==
  ASSUME TypeOK, UNCHANGED file
  PROVE  FileOK' /\ total' = total /\ total \in Nat
  BY UploadsAssumption DEF TypeOK, CountsOK, FileOK, file

LEMMA ReadPieceKeeps == IInv /\ ReadPiece => IInv'
<1> SUFFICES ASSUME IInv, ReadPiece PROVE IInv'
  OBVIOUS
<1> USE DEF ReadPiece, file, network, Sending
<1>1. TypeOK'
  BY SameFile DEF IInv, TypeOK, CountsOK
<1>2. FailsForACause'
  BY DEF FailsForACause
<1> QED
  BY <1>1, <1>2, Steady

LEMMA SendToXKeeps == IInv /\ SendToX => IInv'
<1> SUFFICES ASSUME IInv, SendToX PROVE IInv'
  OBVIOUS
<1> USE DEF SendToX, file, Sending
<1>1. More
  BY DEF IInv, Reached
<1>2. /\ Bytes.first = sent /\ sent < Bytes.last + 1
      /\ Bytes.last \in -1..total - 1
      /\ Length = Bytes.last - Bytes.first + 1
  BY <1>1, BytesLieInTheFile DEF IInv
<1>3. sent' = Bytes.last + 1
  BY <1>2 DEF IInv, TypeOK, CountsOK
<1>4. PICK holds \in HoldsAfter : Take(holds)
  OBVIOUS
<1>5. have' = Bytes.last + 1
  BY <1>1, <1>4, HoldsNoLess DEF IInv, Take
<1>6. parts' = piece + 1
  BY <1>4 DEF IInv, TypeOK, CountsOK, Reached, Take
<1>7. TypeOK'
  <2>1. FileOK' /\ total' = total /\ total \in Nat
    BY SameFile DEF IInv
  <2>2. CountsOK'
    BY <1>2, <1>3, <1>5, <1>6, <2>1, UploadsAssumption DEF IInv, TypeOK, CountsOK
  <2> QED
    BY <2>1, <2>2 DEF IInv, TypeOK
<1>8. Reached'
  BY <1>3, <1>5, <1>6 DEF Reached
<1>9. DoneIsWhole' /\ Causes'
  BY DEF DoneIsWhole, Causes, FailsForACause
<1> QED
  BY <1>7, <1>8, <1>9 DEF IInv

LEMMA SendToTikTokKeeps == IInv /\ SendToTikTok => IInv'
<1> SUFFICES ASSUME IInv, SendToTikTok PROVE IInv'
  OBVIOUS
<1> USE DEF SendToTikTok, file, Sending
<1>1. More /\ net = "tiktok" /\ net' = net /\ piece \in Nat /\ piece' = piece + 1 /\ ~inhand'
  BY DEF IInv, Reached, TypeOK, CountsOK
<1>2. /\ Bytes.last \in -1..total - 1
      /\ piece < Plan.count
      /\ piece = Plan.count - 1 => Bytes.last = total - 1
      /\ piece # Plan.count - 1 => Bytes.last + 1 = (piece + 1) * Plan.size
  BY <1>1, BytesLieInTheFile DEF IInv
<1>3. PICK holds \in HoldsAfter : Take(holds)
  OBVIOUS
<1>4. have' = Bytes.last + 1 /\ parts' = parts
  BY <1>1, <1>3, HoldsNoLess DEF IInv, Take
<1>5. Plan' = Plan /\ Plan.count \in Nat
  BY <1>1, TikTokPlan DEF Plan, IInv
<1>6. TypeOK'
  <2>1. FileOK' /\ total' = total /\ total \in Nat
    BY SameFile DEF IInv
  <2>2. CountsOK'
    BY <1>1, <1>2, <1>4, <2>1, UploadsAssumption DEF IInv, TypeOK, CountsOK
  <2> QED
    BY <2>1, <2>2 DEF IInv, TypeOK
<1>7. Bytes'.first = (piece + 1) * Plan.size
  BY <1>1, <1>5 DEF Bytes, TikTokBytes, Plan
<1>8. total' = total /\ total \in Nat
  BY ChunkIsPositive DEF IInv
<1>9. Reached'
  <2> HIDE DEF Plan
  <2>1. piece + 1 = Plan.count => have' = total
    BY <1>1, <1>2, <1>4, <1>5, <1>8
  <2>2. piece + 1 < Plan.count => have' = Bytes'.first
    BY <1>1, <1>2, <1>4, <1>5, <1>7
  <2> QED
    BY <1>1, <1>2, <1>5, <1>8, <2>1, <2>2 DEF Reached
<1>10. DoneIsWhole' /\ Causes'
  BY DEF DoneIsWhole, Causes, FailsForACause
<1> QED
  BY <1>6, <1>9, <1>10 DEF IInv

LEMMA CompleteKeeps == IInv /\ Complete => IInv'
<1> SUFFICES ASSUME IInv, Complete PROVE IInv'
  OBVIOUS
<1> USE DEF Complete, Take, file, Sending
<1>1. TypeOK'
  BY SameFile DEF IInv, TypeOK, CountsOK
<1>2. More' <=> More
  BY SameBytes
<1>3. Reached'
  BY <1>2 DEF IInv, Reached
<1>4. DoneIsWhole'
  BY DEF DoneIsWhole
<1>5. Causes'
  BY DEF IInv, Causes, FailsForACause
<1> QED
  BY <1>1, <1>3, <1>4, <1>5 DEF IInv

LEMMA CarryOnKeeps == IInv /\ CarryOn => IInv'
<1> SUFFICES ASSUME IInv, CarryOn PROVE IInv'
  OBVIOUS
<1> USE DEF CarryOn, file, Sending, ArrivedSoFar, NoProgress
<1>1. More
  BY DEF IInv, Reached
<1>2. PICK holds \in HoldsAfter :
        /\ Take(holds)
        /\ sent' = holds
        /\ resends' = IF holds <= sent THEN resends + 1 ELSE 0
        /\ ended' = IF holds <= sent /\ resends + 1 > ResendsAllowed THEN "stalled"
                    ELSE ended
        /\ said' = holds
        /\ idle' = IF holds <= said THEN Least(idle + 1, ResendsAllowed + 1) ELSE 0
        /\ IF holds = total
           THEN faults < MaxFaults /\ faults' = faults + 1
                /\ befell' = befell \cup {"undecided"}
           ELSE UNCHANGED <<faults, befell>>
  OBVIOUS
<1>3. holds \in have..total /\ have \in 0..total /\ total \in Nat
  BY <1>1, HoldsNoLess, ChunkIsPositive DEF IInv, TypeOK, CountsOK
<1>4. /\ sent = said /\ resends = idle /\ resends <= ResendsAllowed
      /\ resends \in Nat /\ idle \in Nat /\ sent \in Nat /\ ResendsAllowed \in Nat
  BY UploadsAssumption, ChunkIsPositive DEF IInv, Causes, TypeOK, CountsOK
<1>5. /\ resends' \in 0..ResendsAllowed + 1 /\ idle' = resends'
      /\ ended' = "stalled" <=> resends' > ResendsAllowed
      /\ ended' = "sending" \/ ended' = "stalled"
  BY <1>2, <1>4 DEF Least
<1>6. TypeOK'
  <2>1. faults' \in Nat
    BY <1>2 DEF IInv, TypeOK, CountsOK
  <2>2. befell' \subseteq {"lost", "refused", "forgot", "undecided"}
    BY <1>2 DEF IInv, TypeOK
  <2>3. have' = holds /\ parts' = parts /\ sent' = holds /\ said' = holds
    BY <1>2 DEF Take
  <2>4. FileOK' /\ total' = total /\ total \in Nat
    BY SameFile DEF IInv
  <2>5. CountsOK'
    BY <1>3, <1>5, <2>1, <2>3, <2>4, UploadsAssumption DEF IInv, TypeOK, CountsOK
  <2> QED
    BY <1>5, <2>4, <2>5, <2>2 DEF IInv, TypeOK
<1>7. Reached'
  BY DEF Reached
<1>8. DoneIsWhole'
  BY <1>5 DEF DoneIsWhole
<1>9. Causes'
  BY <1>2, <1>4, <1>5 DEF Causes, FailsForACause
<1> QED
  BY <1>6, <1>7, <1>8, <1>9 DEF IInv

LEMMA EndKeeps == IInv /\ (Finalize \/ StopTikTok \/ StopYouTube) => IInv'
<1> SUFFICES ASSUME IInv, Finalize \/ StopTikTok \/ StopYouTube PROVE IInv'
  OBVIOUS
<1> USE DEF Finalize, StopTikTok, StopYouTube, file, network, Sending
<1>1. TypeOK'
  <2>1. FileOK' /\ total' = total
    BY SameFile DEF IInv
  <2>2. CountsOK'
    BY <2>1 DEF IInv, TypeOK, CountsOK
  <2> QED
    BY <2>1, <2>2 DEF IInv, TypeOK
<1>2. (More' <=> More) /\ Bytes' = Bytes /\ Plan' = Plan
  BY SameBytes
<1>3. Reached'
  BY <1>2 DEF IInv, Reached
<1>4. ASSUME Finalize PROVE have = total
  BY <1>4, ChunkIsPositive DEF IInv, Reached, More, TypeOK, CountsOK
<1>5. ASSUME StopTikTok PROVE have = total
  <2>1. Plan.count \in Nat /\ piece \in Nat /\ ~(piece < Plan.count) /\ piece <= Plan.count
    BY <1>5, TikTokPlan DEF IInv, TypeOK, CountsOK, Reached, More, Plan
  <2> QED
    BY <1>5, <2>1 DEF IInv, Reached
<1>6. ASSUME StopYouTube PROVE sent = total
  BY <1>6, ChunkIsPositive DEF IInv, More, TypeOK, CountsOK
<1>7. DoneIsWhole'
  BY <1>4, <1>5 DEF DoneIsWhole
<1>8. Causes'
  BY <1>6 DEF IInv, Causes, FailsForACause
<1> QED
  BY <1>1, <1>3, <1>7, <1>8 DEF IInv

\* Misfortunes that change nothing of what the network holds.
LEMMA TryAgainKeepsTypes ==
  ASSUME TypeOK, TryAgain, UNCHANGED <<file, said, idle>>, parts' \in Nat,
         have' \in 0..total, Befall("lost")
  PROVE  TypeOK'
<1>1. FileOK' /\ total' = total
  BY SameFile
<1>2. tries' \in 0..Attempts - 1
  BY UploadsAssumption DEF TryAgain, TypeOK, CountsOK
<1>3. CountsOK'
  BY <1>1, <1>2 DEF TryAgain, Befall, TypeOK, CountsOK
<1>4. ended' \in {"sending", "done", "failed", "stalled"}
  BY DEF TryAgain, TypeOK
<1>5. befell' \subseteq {"lost", "refused", "forgot", "undecided"}
  BY DEF Befall, TypeOK
<1> QED
  BY <1>1, <1>3, <1>4, <1>5 DEF TryAgain, TypeOK

LEMMA MisfortuneKeeps == IInv /\ (LoseRequest \/ Refuse) => IInv'
<1> SUFFICES ASSUME IInv, LoseRequest \/ Refuse PROVE IInv'
  OBVIOUS
<1> USE DEF Refuse, LoseRequest, Befall, network
<1>1. TypeOK'
  <2>1. CASE LoseRequest
    BY <2>1, TryAgainKeepsTypes DEF IInv, TypeOK, CountsOK
  <2>2. CASE Refuse
    <3>1. FileOK' /\ total' = total
      BY <2>2, SameFile DEF IInv
    <3>2. CountsOK'
      BY <2>2, <3>1 DEF IInv, TypeOK, CountsOK
    <3>3. befell' \subseteq {"lost", "refused", "forgot", "undecided"}
      BY <2>2 DEF IInv, TypeOK
    <3> QED
      BY <2>2, <3>1, <3>2, <3>3 DEF IInv, TypeOK
  <2> QED
    BY <2>1, <2>2
<1>2. FailsForACause'
  BY DEF Requesting, Sending, TryAgain, IInv, Causes, FailsForACause, file
<1> QED
  BY <1>1, <1>2, Steady DEF Requesting, Sending, TryAgain

\* The network has the piece, and nobody knows: it goes once more, or never.
LEMMA LoseReplyKeeps == IInv /\ LoseReply => IInv'
<1> SUFFICES ASSUME IInv, LoseReply PROVE IInv'
  OBVIOUS
<1> USE DEF LoseReply, Befall, Sending, file
<1>1. More
  BY DEF IInv, Reached
<1>2. PICK holds \in HoldsAfter : Take(holds)
  OBVIOUS
<1>3. /\ have' = holds /\ holds \in have..total /\ have \in 0..total /\ total \in Nat
      /\ net # "youtube" => have' = Bytes.last + 1
  BY <1>1, <1>2, HoldsNoLess, ChunkIsPositive DEF IInv, TypeOK, CountsOK, Take
<1>4. parts' \in Nat
  BY <1>2 DEF Take, IInv, TypeOK, CountsOK
<1>5. TypeOK'
  BY <1>3, <1>4, TryAgainKeepsTypes DEF IInv
<1>6. /\ (More' <=> More) /\ Bytes' = Bytes /\ Plan' = Plan
      /\ UNCHANGED <<net, total, piece, sent, inhand>>
  BY SameBytes DEF TryAgain
<1>7. net = "x" => parts' = piece + 1
  BY <1>2 DEF IInv, TypeOK, CountsOK, Reached, Take
<1>8. net = "tiktok" => piece < Plan.count /\ piece \in Nat /\ Plan.count \in Nat
  BY <1>1, TikTokPlan DEF More, Plan, IInv, TypeOK, CountsOK
<1>9. Reached'
  BY <1>3, <1>6, <1>7, <1>8 DEF IInv, Reached
<1>10. DoneIsWhole' /\ Causes'
  BY DEF IInv, TryAgain, DoneIsWhole, Causes, FailsForACause
<1> QED
  BY <1>5, <1>9, <1>10 DEF IInv

LEMMA ForgetKeeps == IInv /\ Forget => IInv'
<1> SUFFICES ASSUME IInv, Forget PROVE IInv'
  OBVIOUS
<1> USE DEF Forget, Befall, Sending, file, client
<1>1. FileOK' /\ total' = total /\ total \in Nat
  BY SameFile DEF IInv
<1>2. CountsOK'
  BY <1>1 DEF IInv, TypeOK, CountsOK
<1>3. befell' \subseteq {"lost", "refused", "forgot", "undecided"}
  BY DEF IInv, TypeOK
<1>4. TypeOK'
  BY <1>1, <1>2, <1>3 DEF IInv, TypeOK
<1>5. More' <=> More
  BY SameBytes
<1>6. Reached' /\ DoneIsWhole' /\ Causes'
  BY <1>5 DEF IInv, Reached, DoneIsWhole, Causes, FailsForACause
<1> QED
  BY <1>4, <1>6 DEF IInv

LEMMA StutterKeeps == IInv /\ UNCHANGED vars => IInv'
<1> SUFFICES ASSUME IInv, UNCHANGED vars PROVE IInv'
  OBVIOUS
<1> USE DEF vars, client, network, file
<1>1. TypeOK'
  <2>1. FileOK' /\ total' = total
    BY SameFile DEF IInv
  <2>2. CountsOK'
    BY <2>1 DEF IInv, TypeOK, CountsOK
  <2> QED
    BY <2>1, <2>2 DEF IInv, TypeOK
<1>2. FailsForACause'
  BY DEF IInv, Causes, FailsForACause
<1> QED
  BY <1>1, <1>2, Steady

\* The inductive invariant: where the file has got to, on both sides, and why
\* an upload that failed did.
THEOREM Invariance == Spec => []IInv
<1>1. IInv /\ [Next]_vars => IInv'
  <2> SUFFICES ASSUME IInv, [Next]_vars PROVE IInv'
    OBVIOUS
  <2>1. CASE Step
    BY <2>1, ReadPieceKeeps, SendToXKeeps, SendToTikTokKeeps, CompleteKeeps,
       CarryOnKeeps, EndKeeps DEF Step
  <2>2. CASE LoseRequest \/ Refuse
    BY <2>2, MisfortuneKeeps
  <2>3. CASE LoseReply
    BY <2>3, LoseReplyKeeps
  <2>4. CASE Forget
    BY <2>4, ForgetKeeps
  <2>5. CASE Ended \/ UNCHANGED vars
    BY <2>5, StutterKeeps DEF Ended
  <2> QED
    BY <2>1, <2>2, <2>3, <2>4, <2>5 DEF Next
<1> QED
  BY InitHolds, <1>1, PTL DEF Spec

\* The types hold, whatever the sizes: the carry-on byte stays in the file.
THEOREM Typing == Spec => []TypeOK
<1>1. IInv => TypeOK
  BY DEF IInv
<1> QED
  BY <1>1, Invariance, PTL

\* A file that is told done is held to its last byte.
THEOREM DoneFilesAreWhole == Spec => []DoneIsWhole
<1>1. IInv => DoneIsWhole
  BY DEF IInv
<1> QED
  BY <1>1, Invariance, PTL

\* Nothing is given up without a reason.
THEOREM FailuresHaveACause == Spec => []FailsForACause
<1>1. IInv => FailsForACause
  BY DEF IInv, Causes
<1> QED
  BY <1>1, Invariance, PTL

\* No piece is one the network turns down, for any size of file and of piece.
THEOREM EveryPieceIsTaken == Spec => []PiecesAreTaken
<1>1. IInv => PiecesAreTaken
  <2> SUFFICES ASSUME IInv, More PROVE PiecesAreTaken
    BY DEF PiecesAreTaken
  <2>1. total \in Nat /\ chunk \in Nat \ {0} /\ sent \in 0..total /\ piece \in Nat
    BY ChunkIsPositive DEF IInv, TypeOK, CountsOK
  <2>2. CASE net = "youtube"
    <3>1. /\ Bytes.first = sent /\ Length = Bytes.last - Bytes.first + 1
          /\ Bytes.last = Least(sent + chunk, total) - 1
      BY <2>2, BytesLieInTheFile DEF IInv
    <3>2. chunk % Multiple = 0
      BY <2>2 DEF IInv, TypeOK, FileOK, ChunkAllowed
    <3>3. Length = chunk \/ Bytes.last = total - 1
      BY <2>1, <3>1 DEF Least
    <3> QED
      BY <2>2, <3>2, <3>3 DEF PiecesAreTaken
  <2>3. CASE net = "tiktok"
    <3> DEFINE size == Plan.size
               count == Plan.count
    <3>1. /\ size \in Nat /\ count \in Nat \ {0} /\ count * size <= total
          /\ total < MinChunk => size = total /\ count = 1
          /\ total >= MinChunk =>
               total < count * size + size /\ MinChunk <= size /\ size <= chunk
          /\ chunk <= MaxChunk
      BY <2>3, TikTokPlan DEF IInv
    <3>2. /\ Bytes.first = piece * size /\ piece < count
          /\ piece = count - 1 => Bytes.last = total - 1
          /\ piece # count - 1 => Bytes.last + 1 = (piece + 1) * size
          /\ Bytes.last \in -1..total - 1
          /\ Length = Bytes.last - Bytes.first + 1
      BY <2>3, BytesLieInTheFile DEF IInv
    <3>3. size = ChunkPlan(total, chunk).size
      BY DEF Plan
    <3> HIDE DEF size, count
    <3>4. (piece + 1) * size = piece * size + size /\ piece * size \in Nat
      BY <2>1, <3>1, TimesNext, TimesGrows
    <3>5. CASE piece # count - 1
      <4>1. Length = size
        BY <3>1, <3>2, <3>4, <3>5
      <4>2. total >= MinChunk
        BY <2>1, <3>1, <3>2, <3>5, UploadsAssumption
      <4> QED
        BY <2>1, <2>3, <3>1, <3>2, <4>1, <4>2, UploadsAssumption DEF PiecesAreTaken
    <3>6. CASE piece = count - 1
      <4>1. count * size = piece * size + size
        BY <2>1, <3>1, <3>4, <3>6
      <4>2. Length = total - piece * size
        BY <2>1, <3>2, <3>4, <3>6
      <4>3. CASE total < MinChunk
        <5>1. size = total /\ piece = 0
          BY <3>1, <3>6, <4>3
        <5> QED
          BY <2>1, <2>3, <3>2, <3>3, <3>4, <3>6, <4>2, <4>3, <5>1, UploadsAssumption
          DEF PiecesAreTaken
      <4>4. CASE total >= MinChunk
        BY <2>1, <2>3, <3>1, <3>2, <3>3, <3>4, <3>6, <4>1, <4>2, <4>4, UploadsAssumption
        DEF PiecesAreTaken
      <4> QED
        BY <2>1, <4>3, <4>4, UploadsAssumption
    <3> QED
      BY <3>5, <3>6
  <2>4. CASE net = "x"
    BY <2>4 DEF PiecesAreTaken
  <2> QED
    BY <2>2, <2>3, <2>4 DEF IInv, TypeOK, FileOK
<1> QED
  BY <1>1, Invariance, PTL
===============================================================================
