------------------------- MODULE CardActionsProofs -------------------------
(***************************************************************************)
(* Proofs about CardActions, for any cards, events, limits and numbers of  *)
(* faults, crashes, stops and edits.                                       *)
(*                                                                         *)
(* A card runs at most once per incarnation because only one that is open, *)
(* waiting or held by an edit, can be claimed, and a card that had its turn*)
(* is open again only after a crash or a stop.  What the server was told   *)
(* stays true because a settled card is shut both in memory and on disk,   *)
(* which no step undoes.  An ack is remembered because whoever owes one    *)
(* has it on disk and, while the poller runs, in the poller's hands.       *)
(***************************************************************************)
EXTENDS CardActions, FiniteSetTheorems, WellFoundedInduction, TLAPS

-----------------------------------------------------------------------------
(* The inductive invariant: the type invariant by variables, ...           *)

EntriesTyped == mem \in [Cards -> Entry] /\ file \in [Cards -> Entry]
ServerTyped == known \subseteq Cards /\ posted \in 0..MaxEvent /\ acked \subseteq Events
CursorTyped == disk \in CursorFile /\ orphans \subseteq OrphanWrite
PlaceTyped ==
    /\ up \in BOOLEAN /\ injected \in BOOLEAN
    /\ pc \in {"off", "top", "fetch", "next", "status", "dispatch", "final",
               "save", "ack", "clear"}
PollerTyped ==
    /\ cursor \in {0} \union Events /\ pending \in {0} \union Events
    /\ failures \in Nat /\ batch \subseteq Events /\ verdict \in Statuses
SequencesTyped == edit \in [Cards -> Nat] /\ sent \in [Cards -> Nat]
HistoryTyped ==
    /\ outcome \in [Events -> Statuses] /\ turns \in [Cards -> Nat]
    /\ abandoned \subseteq Events /\ lapsed \subseteq Events
BoundsTyped ==
    /\ faults \in 0..MaxFaults /\ crashes \in 0..MaxCrashes
    /\ stops \in 0..MaxStops /\ edits \in 0..MaxEdits

\* ... the registry is never over its limit, nor is what a restart restores; ...
Fits(m) == IsFiniteSet(Live(m)) /\ Cardinality(Live(m)) <= MaxSessions
CapacityInv == Fits(mem) /\ Fits(file)

\* ... where the poller is; ...
PlaceInv ==
    /\ pc \in {"next", "status", "dispatch", "final", "save"} => batch # {}
    /\ injected => pc = "dispatch"
    /\ ~up => pc = "off" /\ \A c \in Cards : mem[c].state = "absent" /\ edit[c] = 0

\* ... nothing is heard of a card before it is sent; ...
KnownInv ==
    /\ \A c \in Cards \ known :
          /\ mem[c].state = "absent" /\ file[c].state = "absent"
          /\ edit[c] = 0 /\ sent[c] = 0 /\ turns[c] = 0
    /\ \A e \in Events : e <= posted => CardOf[e] \in known
    /\ \A e \in batch : e <= posted
    /\ \A e \in Events : outcome[e] # "none" => e <= posted

\* ... the card of a dispatch is the dispatch's, unless it is gone; ...
ClaimInv ==
    pc \in {"status", "dispatch"} => mem[Card].state = "absent" \/ HeldBy(mem[Card], Current)

\* ... a card that may still get a turn has had none in this incarnation; ...
Open(c) ==
    \/ mem[c].state = "pending"
    \/ mem[c].state = "processing" /\ mem[c].by < 0
    \/ pc \in {"status", "dispatch"} /\ ~injected /\ c = Card

TurnsInv ==
    \A c \in Cards : /\ turns[c] <= 1 + crashes + stops
                     /\ ~up \/ Open(c) => turns[c] <= crashes + stops

\* ... a card whose event was passed with an outcome is closed for good; ...
Ran == {"completed", "failed", "dead_letter"}
Shut(c) == mem[c].state \in {"completed", "absent"} /\ file[c].state \in {"completed", "absent"}

SettledInv ==
    /\ \A e \in Events : outcome[e] \in Ran => Shut(CardOf[e])
    /\ pc \in {"final", "save"} /\ verdict \in Ran => Shut(Card)

\* ... no copy of an entry has a sequence below one in use; ...
Covers(x, n) == x.state # "absent" => n <= x.seq

SequenceInv ==
    \A c \in Cards \ Reasoning :
        /\ Covers(mem[c], sent[c]) /\ Covers(file[c], sent[c])
        /\ Covers(mem[c], edit[c]) /\ Covers(file[c], edit[c])

\* ... and an ack that is owed is on disk and in the poller's hands.
Owed(e) == ShouldAck(outcome[e]) /\ e \notin acked \union abandoned \union lapsed

AckInv ==
    /\ \A e \in Events : Owed(e) => e = disk.pending /\ (pc # "off" => e = pending)
    /\ pc \in {"fetch", "next", "status", "dispatch", "final", "save"} => pending = 0
    /\ pc = "clear" => pending \in acked \union abandoned
    /\ pc \in {"ack", "clear"} => pending # 0
    /\ disk.pending <= disk.event
    /\ \A w \in orphans : w.pending <= w.event

IInv ==
    /\ EntriesTyped /\ ServerTyped /\ CursorTyped /\ PlaceTyped /\ PollerTyped
    /\ SequencesTyped /\ HistoryTyped /\ BoundsTyped
    /\ CapacityInv /\ PlaceInv /\ KnownInv /\ ClaimInv /\ TurnsInv /\ SettledInv
    /\ SequenceInv /\ AckInv

-----------------------------------------------------------------------------
(* The steps.                                                              *)

\* The oldest event of a batch is one of it.
LEMMA MinIn ==
    ASSUME NEW S \in SUBSET Nat, S # {}
    PROVE  Min(S) \in S
<1> DEFINE R == OpToRel(<, Nat)
<1>1. R = {ss \in Nat \X Nat : ss[1] < ss[2]}
  BY DEF OpToRel
<1>2. IsWellFoundedOn(R, Nat)
  BY NatLessThanWellFounded
<1> HIDE DEF R
<1>3. PICK x \in S : \A y \in S : ~(<<y, x>> \in R)
  BY <1>2, WFMin
<1>4. ASSUME NEW y \in S PROVE x <= y
  <2>1. <<y, x>> \in Nat \X Nat /\ <<y, x>> \notin R
    BY <1>3
  <2> QED
    BY <2>1, <1>1
<1> QED
  BY <1>4 DEF Min

\* Reading the cursor file spends at most what is left of the faults.
LEMMA ReadingIsBounded ==
    ASSUME BoundsTyped, FailsToRead \/ faults' = faults
    PROVE  faults' \in 0..MaxFaults
BY CardAssumption DEF BoundsTyped, FailsToRead

LEMMA CurrentIn ==
    ASSUME PollerTyped, batch # {}
    PROVE  Current \in batch /\ Current \in Events /\ Card \in Cards
<1>1. batch \in SUBSET Nat
  BY DEF PollerTyped, Events
<1>2. Current \in batch
  BY <1>1, MinIn DEF Current
<1> QED
  BY <1>2, CardAssumption DEF Card, PollerTyped

\* A set of cards no larger than one that fits.
LEMMA FitsSubset ==
    ASSUME NEW m, NEW n, Fits(m), Live(n) \subseteq Live(m)
    PROVE  Fits(n)
<1>1. IsFiniteSet(Live(n)) /\ Cardinality(Live(n)) <= Cardinality(Live(m))
  BY FS_Subset DEF Fits
<1>2. Cardinality(Live(n)) \in Nat /\ Cardinality(Live(m)) \in Nat
  BY <1>1, FS_CardinalityType DEF Fits
<1> QED
  BY <1>1, <1>2, CardAssumption DEF Fits

LEMMA FitsRecords ==
    ASSUME NEW m, Fits(m)
    PROVE  Fits(Records(m))
<1>1. Live(Records(m)) \subseteq Live(m)
  BY DEF Live, Records, Absent
<1> QED
  BY <1>1, FitsSubset

LEMMA FitsRestored ==
    ASSUME NEW m \in [Cards -> Entry], Fits(m)
    PROVE  Fits(Restored(m))
<1>1. Live(Restored(m)) \subseteq Live(m)
  BY DEF Live, Restored, Entry
<1> QED
  BY <1>1, FitsSubset

LEMMA RestoredTyped ==
    ASSUME NEW m \in [Cards -> Entry]
    PROVE  Restored(m) \in [Cards -> Entry]
<1>1. ASSUME NEW x \in Entry, NEW s \in {"absent", "pending", "processing", "completed"}
      PROVE  [x EXCEPT !.state = s, !.by = 0] \in Entry
  <2>1. PICK n \in Int : n = 0
    OBVIOUS
  <2>2. [x EXCEPT !.state = s, !.by = n] \in Entry
    BY DEF Entry
  <2> QED
    BY <2>1, <2>2
<1>2. \A c \in Cards :
        (IF m[c].state = "processing" THEN "pending" ELSE m[c].state)
          \in {"absent", "pending", "processing", "completed"}
  BY DEF Entry
<1> QED
  BY <1>1, <1>2 DEF Restored

\* What becomes of an entry other than by a new registration or by its end: it
\* is there as before, a settled one stays settled, and its sequence grows.
Follows(x, y) ==
    /\ y \in Entry
    /\ y.state = "absent" <=> x.state = "absent"
    /\ x.state = "completed" => y.state = "completed"
    /\ x.seq <= y.seq

LEMMA FollowsSame == ASSUME NEW x \in Entry PROVE Follows(x, x)
  BY DEF Follows, Entry

LEMMA ClaimedFollows ==
    ASSUME NEW x \in Entry, x.state = "pending", NEW e \in Nat
    PROVE  Follows(x, Claimed(x, e)) /\ HeldBy(Claimed(x, e), e)
<1>1. x.attempts + 1 \in Nat
  BY DEF Entry
<1>2. Claimed(x, e) \in Entry
  <2>1. PICK n \in Nat : n = IF x.attemptEvent = e THEN x.attempts + 1 ELSE 1
    BY <1>1
  <2>2. Claimed(x, e) = [x EXCEPT !.state = "processing", !.by = e, !.attemptEvent = e,
                                  !.attempts = n]
    BY <2>1 DEF Entry, Claimed
  <2>3. e \in Int
    OBVIOUS
  <2> QED
    BY <2>2, <2>3 DEF Entry
<1>3. Claimed(x, e).state = "processing" /\ Claimed(x, e).by = e /\ Claimed(x, e).seq = x.seq
  BY DEF Entry, Claimed
<1> QED
  BY <1>2, <1>3 DEF Follows, HeldBy, Entry

LEMMA EditClaimedFollows ==
    ASSUME NEW x \in Entry, x.state = "pending"
    PROVE  /\ Follows(x, EditClaimed(x)) /\ EditClaimed(x).seq = x.seq + 1
           /\ EditClaimed(x).state = "processing" /\ EditClaimed(x).by < 0
<1>1. x.seq \in Nat /\ x.seq + 1 \in Nat /\ -(x.seq + 1) \in Int /\ -(x.seq + 1) < 0
  BY DEF Entry
<1>2. EditClaimed(x) \in Entry
  BY <1>1 DEF Entry, EditClaimed
<1>3. /\ EditClaimed(x).state = "processing" /\ EditClaimed(x).by = -(x.seq + 1)
      /\ EditClaimed(x).seq = x.seq + 1
  BY DEF Entry, EditClaimed
<1> QED
  BY <1>1, <1>2, <1>3 DEF Follows

LEMMA ReleasedFollows ==
    ASSUME NEW x \in Entry, NEW by \in Int
    PROVE  /\ Follows(x, Released(x, by))
           /\ HeldBy(x, by) => Released(x, by).state = "pending"
           /\ ~HeldBy(x, by) => Released(x, by) = x
<1>1. Released(x, by) \in Entry
  <2>1. PICK n \in Int : n = 0
    OBVIOUS
  <2>2. [x EXCEPT !.state = "pending", !.by = n] \in Entry
    BY DEF Entry
  <2> QED
    BY <2>1, <2>2 DEF Released
<1>2. CASE HeldBy(x, by)
  <2>1. Released(x, by).state = "pending" /\ Released(x, by).seq = x.seq
    BY <1>2 DEF Entry, Released
  <2> QED
    BY <1>1, <1>2, <2>1 DEF Follows, HeldBy, Entry
<1>3. CASE ~HeldBy(x, by)
  BY <1>3, FollowsSame DEF Released
<1> QED
  BY <1>2, <1>3

LEMMA CompletedFollows ==
    ASSUME NEW x \in Entry, NEW by \in Int
    PROVE  /\ Follows(x, Completed(x, by))
           /\ HeldBy(x, by) => Completed(x, by).state = "completed"
           /\ ~HeldBy(x, by) => Completed(x, by) = x
<1>1. Completed(x, by) \in Entry
  BY DEF Entry, Completed
<1>2. CASE HeldBy(x, by)
  <2>1. Completed(x, by).state = "completed" /\ Completed(x, by).seq = x.seq
    BY <1>2 DEF Entry, Completed
  <2> QED
    BY <1>1, <1>2, <2>1 DEF Follows, HeldBy, Entry
<1>3. CASE ~HeldBy(x, by)
  BY <1>3, FollowsSame DEF Completed
<1> QED
  BY <1>2, <1>3

LEMMA NextSeqFollows ==
    ASSUME NEW x \in Entry
    PROVE  /\ Follows(x, NextSeq(x)) /\ NextSeq(x).state = x.state /\ NextSeq(x).by = x.by
           /\ NextSeq(x).seq \in Nat
  BY DEF Follows, Entry, NextSeq

LEMMA FollowsTransitive ==
    ASSUME NEW x \in Entry, NEW y, NEW z, Follows(x, y), Follows(y, z)
    PROVE  Follows(x, z)
  BY DEF Follows, Entry

\* A step of the registry that concerns one card, and one of its file.
MemStep(c) ==
    /\ mem' \in [Cards -> Entry] /\ Fits(mem')
    /\ \A d \in Cards : d # c => mem'[d] = mem[d]
    /\ \A d \in Cards : Follows(mem[d], mem'[d])

FileStep ==
    /\ file' \in [Cards -> Entry] /\ Fits(file')
    /\ \A d \in Cards : \/ file'[d] = file[d]
                        \/ d \in Reasoning /\ file'[d].state = "absent"
                        \/ d \notin Reasoning /\ Follows(mem[d], file'[d])

LEMMA UpdateFits ==
    ASSUME EntriesTyped, CapacityInv, NEW c \in Cards, NEW y, Follows(mem[c], y)
    PROVE  /\ [mem EXCEPT ![c] = y] \in [Cards -> Entry]
           /\ Fits([mem EXCEPT ![c] = y])
<1>1. Live([mem EXCEPT ![c] = y]) \subseteq Live(mem)
  BY DEF Live, Follows, EntriesTyped
<1>2. Fits([mem EXCEPT ![c] = y])
  BY <1>1, FitsSubset DEF CapacityInv
<1> QED
  BY <1>2 DEF EntriesTyped, Follows

LEMMA MemSame ==
    ASSUME EntriesTyped, CapacityInv, NEW c, mem' = mem
    PROVE  MemStep(c)
  BY FollowsSame DEF MemStep, EntriesTyped, CapacityInv

LEMMA MemMoves ==
    ASSUME EntriesTyped, CapacityInv, NEW c \in Cards, NEW y, Follows(mem[c], y),
           mem' = [mem EXCEPT ![c] = y]
    PROVE  MemStep(c) /\ mem'[c] = y
<1>1. mem' \in [Cards -> Entry] /\ Fits(mem')
  BY UpdateFits
<1> QED
  BY <1>1, FollowsSame DEF MemStep, EntriesTyped

LEMMA FileSame ==
    ASSUME EntriesTyped, CapacityInv, file' = file
    PROVE  FileStep
  BY DEF FileStep, EntriesTyped, CapacityInv

LEMMA FileMoves ==
    ASSUME EntriesTyped, CapacityInv, NEW c \in Cards, NEW y, Follows(mem[c], y),
           file' = Records([mem EXCEPT ![c] = y])
    PROVE  FileStep /\ (c \notin Reasoning => file'[c] = y)
<1> DEFINE m == [mem EXCEPT ![c] = y]
<1>1. m \in [Cards -> Entry] /\ Fits(m)
  BY UpdateFits
<1>2. \A d \in Cards : Follows(mem[d], m[d])
  BY FollowsSame DEF EntriesTyped
<1>3. m[c] = y
  BY DEF EntriesTyped
<1> HIDE DEF m
<1>4. Fits(file')
  BY <1>1, FitsRecords DEF m
<1>5. \A d \in Cards : file'[d] = IF d \in Reasoning THEN Absent ELSE m[d]
  BY DEF Records, m
<1>6. file' \in [Cards -> Entry]
  BY <1>1 DEF Records, Entry, Absent, m
<1>7. Absent.state = "absent"
  BY DEF Absent
<1> QED
  BY <1>2, <1>3, <1>4, <1>5, <1>6, <1>7 DEF FileStep

LEMMA FileWritten ==
    ASSUME EntriesTyped, CapacityInv, NEW c \in Cards, file' = Records(mem)
    PROVE  FileStep
<1>1. mem = [mem EXCEPT ![c] = mem[c]] /\ Follows(mem[c], mem[c])
  BY FollowsSame DEF EntriesTyped
<1> QED
  BY <1>1, FileMoves
LEMMA InitInvariant == Init => IInv
<1> SUFFICES ASSUME Init PROVE IInv
  OBVIOUS
<1> USE CardAssumption DEF Init
<1>1. EntriesTyped /\ SequencesTyped
  BY DEF EntriesTyped, Entry, Absent, SequencesTyped
<1>2. ServerTyped /\ CursorTyped /\ PlaceTyped /\ PollerTyped
  <2>1. 0 \in 0..MaxEvent
    OBVIOUS
  <2>2. ServerTyped /\ PlaceTyped
    BY <2>1 DEF ServerTyped, PlaceTyped
  <2>3. CursorTyped
    BY DEF CursorTyped, CursorFile
  <2>4. PollerTyped
    BY DEF PollerTyped, Statuses
  <2> QED
    BY <2>2, <2>3, <2>4
<1>3. HistoryTyped /\ BoundsTyped
  BY DEF HistoryTyped, Statuses, BoundsTyped
<1>4. CapacityInv
  <2>1. Live(mem) = {} /\ Live(file) = {}
    BY DEF Live, Absent
  <2> QED
    BY <2>1, FS_EmptySet DEF CapacityInv, Fits
<1>5. PlaceInv /\ ClaimInv
  BY DEF PlaceInv, ClaimInv, Absent
<1>6. KnownInv
  BY DEF KnownInv, Absent, Events
<1>7. TurnsInv
  BY DEF TurnsInv, Open
<1>8. SettledInv
  BY DEF SettledInv, Ran
<1>9. SequenceInv
  BY DEF SequenceInv, Covers, Absent
<1>10. AckInv
  BY DEF AckInv, Owed, ShouldAck
<1> QED
  BY <1>1, <1>2, <1>3, <1>4, <1>5, <1>6, <1>7, <1>8, <1>9, <1>10 DEF IInv

\* Every step keeps all parts of the invariant.
LEMMA StepInvariant == IInv /\ [Next]_vars => IInv'
<1> SUFFICES ASSUME IInv, [Next]_vars
             PROVE  IInv'
  OBVIOUS
<1> USE CardAssumption DEF registry, server, poller, history, bounds
<1>1. CASE Boot
  <2>1. mem' = Restored(file) /\ file' = file /\ file \in [Cards -> Entry] /\ Fits(file)
    BY <1>1 DEF IInv, EntriesTyped, CapacityInv, Boot
  <2>2. Fits(mem')
    BY <2>1, FitsRestored
  <2>3. mem' \in [Cards -> Entry]
    BY <2>1, RestoredTyped
  <2>4. mem' \in [Cards -> Entry] /\ Fits(mem') /\ file' = file
    BY <2>1, <2>2, <2>3
  <2>5. \A c \in Cards : /\ mem'[c].state = (IF file[c].state = "processing" THEN "pending"
                                           ELSE file[c].state)
                         /\ mem'[c].seq = file[c].seq
    BY <1>1 DEF IInv, EntriesTyped, Boot, Restored, Entry
  <2>6. /\ ServerTyped' /\ CursorTyped' /\ PollerTyped' /\ SequencesTyped' /\ HistoryTyped'
        /\ BoundsTyped' /\ AckInv'
    BY <1>1 DEF IInv, ServerTyped, CursorTyped, CursorFile, OrphanWrite, PollerTyped, Statuses,
       SequencesTyped, HistoryTyped, BoundsTyped, AckInv, Owed, ShouldAck, Boot
  <2>7. EntriesTyped'
    BY <2>4 DEF IInv, EntriesTyped
  <2>8. PlaceTyped'
    BY <1>1, <2>4, <2>5 DEF IInv, PlaceTyped, Boot
  <2>9. CapacityInv'
    BY <2>4 DEF IInv, CapacityInv
  <2>10. PlaceInv'
    BY <1>1, <2>4, <2>5 DEF IInv, PlaceInv, Boot
  <2>11. KnownInv'
    BY <1>1, <2>4, <2>5 DEF IInv, KnownInv, Boot
  <2>12. ClaimInv'
    BY <1>1, <2>4, <2>5 DEF IInv, ClaimInv, HeldBy, Card, Current, EntriesTyped, Entry,
       PlaceTyped, PlaceInv, KnownInv, Boot
  <2>13. TurnsInv'
    BY <1>1, <2>4, <2>5 DEF IInv, TurnsInv, Open, Card, Current, Boot
  <2>14. SettledInv'
    BY <1>1, <2>4, <2>5, ZenonT(60) DEF IInv, SettledInv, Shut, Card, Current, Ran,
       EntriesTyped, Entry, ClaimInv, HeldBy, KnownInv, PlaceInv, Boot
  <2>15. SequenceInv'
    BY <1>1, <2>4, <2>5 DEF IInv, SequenceInv, Covers, Boot
  <2> QED
    BY <2>6, <2>7, <2>8, <2>9, <2>10, <2>11, <2>12, <2>13, <2>14, <2>15 DEF IInv
<1>2. CASE StartPoller
  <2>1. /\ ServerTyped' /\ SequencesTyped' /\ CapacityInv' /\ KnownInv' /\ SequenceInv'
    BY <1>2 DEF IInv, ServerTyped, SequencesTyped, Statuses, CapacityInv, KnownInv,
       SequenceInv, Covers, StartPoller
  <2>11. HistoryTyped'
    BY <1>2 DEF IInv, HistoryTyped, CursorTyped, CursorFile, StartPoller
  <2>12. BoundsTyped'
    <3>1. faults' \in 0..MaxFaults
      BY <1>2, ReadingIsBounded DEF IInv, StartPoller
    <3> QED
      BY <1>2, <3>1 DEF IInv, BoundsTyped, StartPoller, bounds
  <2>2. EntriesTyped'
    BY <1>2 DEF IInv, EntriesTyped, Entry, StartPoller
  <2>3. CursorTyped'
    BY <1>2 DEF IInv, CursorTyped, CursorFile, OrphanWrite, StartPoller
  <2>4. PlaceTyped'
    BY <1>2 DEF IInv, PlaceTyped, StartPoller
  <2>5. PollerTyped'
    BY <1>2 DEF IInv, PollerTyped, Statuses, CursorTyped, CursorFile, OrphanWrite, ServerTyped,
       StartPoller
  <2>6. PlaceInv'
    BY <1>2 DEF IInv, PlaceInv, StartPoller
  <2>7. ClaimInv'
    BY <1>2 DEF IInv, ClaimInv, HeldBy, Card, Current, StartPoller
  <2>8. TurnsInv'
    BY <1>2 DEF IInv, TurnsInv, Open, Card, Current, StartPoller
  <2>9. SettledInv'
    BY <1>2 DEF IInv, SettledInv, Shut, Card, Current, Ran, StartPoller
  <2>10. AckInv'
    BY <1>2 DEF IInv, AckInv, Owed, ShouldAck, StartPoller
  <2> QED
    BY <2>1, <2>2, <2>3, <2>4, <2>5, <2>6, <2>7, <2>8, <2>9, <2>10, <2>11, <2>12 DEF IInv
<1>3. CASE Poll
  <2>1. /\ EntriesTyped' /\ ServerTyped' /\ CursorTyped' /\ PollerTyped' /\ SequencesTyped'
        /\ HistoryTyped' /\ BoundsTyped' /\ CapacityInv' /\ KnownInv' /\ SequenceInv'
    BY <1>3 DEF IInv, EntriesTyped, Entry, ServerTyped, CursorTyped, CursorFile, OrphanWrite,
       PollerTyped, Statuses, SequencesTyped, HistoryTyped, BoundsTyped, CapacityInv, KnownInv,
       SequenceInv, Covers, Poll, Goto
  <2>2. PlaceTyped'
    BY <1>3 DEF IInv, PlaceTyped, Poll, Goto
  <2>3. PlaceInv'
    BY <1>3 DEF IInv, PlaceInv, Poll, Goto
  <2>4. ClaimInv'
    BY <1>3 DEF IInv, ClaimInv, HeldBy, Card, Current, Poll, Goto
  <2>5. TurnsInv'
    BY <1>3 DEF IInv, TurnsInv, Open, Card, Current, Poll, Goto
  <2>6. SettledInv'
    BY <1>3 DEF IInv, SettledInv, Shut, Card, Current, Ran, Poll, Goto
  <2>7. AckInv'
    BY <1>3 DEF IInv, AckInv, Owed, ShouldAck, Poll, Goto
  <2> QED
    BY <2>1, <2>2, <2>3, <2>4, <2>5, <2>6, <2>7 DEF IInv
<1>4. CASE Fetch
  <2>1. /\ EntriesTyped' /\ ServerTyped' /\ CursorTyped' /\ SequencesTyped' /\ HistoryTyped'
        /\ BoundsTyped' /\ CapacityInv' /\ SequenceInv'
    BY <1>4 DEF IInv, EntriesTyped, Entry, ServerTyped, CursorTyped, CursorFile, OrphanWrite,
       SequencesTyped, HistoryTyped, Statuses, BoundsTyped, CapacityInv, SequenceInv, Covers,
       Fetch
  <2>2. PlaceTyped'
    BY <1>4 DEF IInv, PlaceTyped, Fetch
  <2>3. PollerTyped'
    <3>1. 1..posted \subseteq Events
      BY DEF IInv, ServerTyped, Events
    <3> QED
      BY <1>4, <3>1 DEF IInv, PollerTyped, Fetch
  <2>4. PlaceInv'
    BY <1>4 DEF IInv, PlaceInv, Fetch
  <2>5. KnownInv'
    BY <1>4 DEF IInv, KnownInv, Fetch
  <2>6. ClaimInv'
    BY <1>4 DEF IInv, ClaimInv, HeldBy, Card, Current, Fetch
  <2>7. TurnsInv'
    BY <1>4 DEF IInv, TurnsInv, Open, Card, Current, Fetch
  <2>8. SettledInv'
    BY <1>4 DEF IInv, SettledInv, Shut, Card, Current, Ran, Fetch
  <2>9. AckInv'
    BY <1>4 DEF IInv, AckInv, Owed, ShouldAck, Fetch
  <2> QED
    BY <2>1, <2>2, <2>3, <2>4, <2>5, <2>6, <2>7, <2>8, <2>9 DEF IInv
<1>5. CASE HandleMalformed
  <2>1. /\ Current \in batch /\ Current \in Events /\ Current \in Nat
        /\ Card \in Cards /\ Card \in known
    BY <1>5, CurrentIn DEF IInv, PlaceInv, KnownInv, Card, Events, HandleMalformed
  <2>2. /\ EntriesTyped' /\ ServerTyped' /\ CursorTyped' /\ SequencesTyped' /\ HistoryTyped'
        /\ BoundsTyped' /\ CapacityInv' /\ KnownInv' /\ SequenceInv'
    BY <1>5 DEF IInv, EntriesTyped, Entry, ServerTyped, CursorTyped, CursorFile, OrphanWrite,
       SequencesTyped, HistoryTyped, Statuses, BoundsTyped, CapacityInv, KnownInv, SequenceInv,
       Covers, HandleMalformed, Answer
  <2>3. PlaceTyped'
    BY <1>5, <2>1 DEF IInv, PlaceTyped, HandleMalformed, Answer
  <2>4. PollerTyped'
    BY <1>5, <2>1 DEF IInv, PollerTyped, Statuses, HandleMalformed, Answer
  <2>5. PlaceInv'
    BY <1>5, <2>1 DEF IInv, PlaceInv, HandleMalformed, Answer
  <2>6. ClaimInv'
    BY <1>5, <2>1 DEF IInv, ClaimInv, HeldBy, Card, Current, HandleMalformed, Answer
  <2>7. TurnsInv'
    BY <1>5, <2>1 DEF IInv, TurnsInv, Open, Card, Current, HandleMalformed, Answer
  <2>8. SettledInv'
    BY <1>5, <2>1 DEF IInv, SettledInv, Shut, Card, Current, Ran, HandleMalformed, Answer
  <2>9. AckInv'
    BY <1>5, <2>1 DEF IInv, AckInv, Owed, ShouldAck, HandleMalformed, Answer
  <2> QED
    BY <2>2, <2>3, <2>4, <2>5, <2>6, <2>7, <2>8, <2>9 DEF IInv
<1>6. CASE HandleMissing
  <2>1. /\ Current \in batch /\ Current \in Events /\ Current \in Nat
        /\ Card \in Cards /\ Card \in known
    BY <1>6, CurrentIn DEF IInv, PlaceInv, KnownInv, Card, Events, HandleMissing
  <2>2. /\ EntriesTyped' /\ ServerTyped' /\ CursorTyped' /\ SequencesTyped' /\ HistoryTyped'
        /\ BoundsTyped' /\ CapacityInv' /\ KnownInv' /\ SequenceInv'
    BY <1>6 DEF IInv, EntriesTyped, Entry, ServerTyped, CursorTyped, CursorFile, OrphanWrite,
       SequencesTyped, HistoryTyped, Statuses, BoundsTyped, CapacityInv, KnownInv, SequenceInv,
       Covers, HandleMissing, Answer
  <2>3. PlaceTyped'
    BY <1>6, <2>1 DEF IInv, PlaceTyped, HandleMissing, Answer
  <2>4. PollerTyped'
    BY <1>6, <2>1 DEF IInv, PollerTyped, Statuses, HandleMissing, Answer
  <2>5. PlaceInv'
    BY <1>6, <2>1 DEF IInv, PlaceInv, HandleMissing, Answer
  <2>6. ClaimInv'
    BY <1>6, <2>1 DEF IInv, ClaimInv, HeldBy, Card, Current, HandleMissing, Answer
  <2>7. TurnsInv'
    BY <1>6, <2>1 DEF IInv, TurnsInv, Open, Card, Current, HandleMissing, Answer
  <2>8. SettledInv'
    BY <1>6, <2>1 DEF IInv, SettledInv, Shut, Card, Current, Ran, HandleMissing, Answer
  <2>9. AckInv'
    BY <1>6, <2>1 DEF IInv, AckInv, Owed, ShouldAck, HandleMissing, Answer
  <2> QED
    BY <2>2, <2>3, <2>4, <2>5, <2>6, <2>7, <2>8, <2>9 DEF IInv
<1>7. CASE HandleDuplicate
  <2>1. /\ Current \in batch /\ Current \in Events /\ Current \in Nat
        /\ Card \in Cards /\ Card \in known
    BY <1>7, CurrentIn DEF IInv, PlaceInv, KnownInv, Card, Events, HandleDuplicate
  <2>2. EntriesTyped /\ CapacityInv /\ mem[Card] \in Entry
    BY <2>1 DEF IInv, EntriesTyped
  <2>3. MemStep(Card) /\ FileStep
    BY <1>7, <2>1, <2>2, MemSame, FileSame, FileWritten DEF HandleDuplicate, Persist
  <2>4. ServerTyped' /\ CursorTyped' /\ SequencesTyped' /\ HistoryTyped'
    BY <1>7 DEF IInv, ServerTyped, CursorTyped, CursorFile, OrphanWrite, SequencesTyped,
       HistoryTyped, Statuses, HandleDuplicate, Durable, Answer, BackToTop, MemStep, FileStep,
       Follows
  <2>5. EntriesTyped'
    BY <2>3 DEF MemStep, FileStep, EntriesTyped
  <2>6. PlaceTyped'
    BY <1>7, <2>1, <2>3 DEF IInv, PlaceTyped, HandleDuplicate, Durable, Answer, BackToTop,
       MemStep, FileStep, Follows
  <2>7. PollerTyped'
    BY <1>7, <2>1, <2>3 DEF IInv, PollerTyped, Statuses, HandleDuplicate, Durable, Answer,
       BackToTop, MemStep, FileStep, Follows
  <2>8. BoundsTyped'
    BY <1>7 DEF IInv, BoundsTyped, HandleDuplicate, Persist
  <2>9. CapacityInv'
    BY <2>3 DEF MemStep, FileStep, CapacityInv
  <2>10. PlaceInv'
    BY <1>7, <2>1, <2>3 DEF IInv, PlaceInv, HandleDuplicate, Durable, Answer, BackToTop,
       MemStep, FileStep, Follows
  <2>11. KnownInv'
    BY <1>7, <2>1, <2>3 DEF IInv, KnownInv, HandleDuplicate, Durable, Answer, BackToTop,
       MemStep, FileStep, Follows
  <2>12. ClaimInv'
    BY <1>7, <2>1, <2>3 DEF IInv, ClaimInv, HeldBy, Card, Current, HandleDuplicate, Durable,
       Answer, BackToTop, MemStep, FileStep, Follows
  <2>13. TurnsInv'
    BY <1>7, <2>1, <2>3 DEF IInv, TurnsInv, Open, Card, Current, HandleDuplicate, Durable,
       Answer, BackToTop, MemStep, FileStep, Follows
  <2>14. SettledInv'
    BY <1>7, <2>1, <2>3 DEF IInv, SettledInv, Shut, Card, Current, Ran, HandleDuplicate,
       Durable, Answer, BackToTop, MemStep, FileStep, Follows
  <2>15. SequenceInv'
    BY <1>7, <2>1, <2>3 DEF IInv, SequenceInv, Covers, EntriesTyped, Entry, SequencesTyped,
       KnownInv, PlaceInv, HandleDuplicate, Durable, Answer, BackToTop, MemStep, FileStep,
       Follows
  <2>16. AckInv'
    BY <1>7, <2>1, <2>3 DEF IInv, AckInv, Owed, ShouldAck, HandleDuplicate, Durable, Answer,
       BackToTop, MemStep, FileStep, Follows
  <2> QED
    BY <2>4, <2>5, <2>6, <2>7, <2>8, <2>9, <2>10, <2>11, <2>12, <2>13, <2>14, <2>15,
       <2>16 DEF IInv
<1>8. CASE HandleClaim
  <2>1. /\ Current \in batch /\ Current \in Events /\ Current \in Nat
        /\ Card \in Cards /\ Card \in known
    BY <1>8, CurrentIn DEF IInv, PlaceInv, KnownInv, Card, Events, HandleClaim
  <2>2. EntriesTyped /\ CapacityInv /\ mem[Card] \in Entry
    BY <2>1 DEF IInv, EntriesTyped
  <2>3. /\ Follows(mem[Card], Claimed(mem[Card], Current))
        /\ HeldBy(Claimed(mem[Card], Current), Current)
    BY <1>8, <2>1, <2>2, ClaimedFollows DEF HandleClaim
  <2>4. ClaimEvent = [mem EXCEPT ![Card] = Claimed(mem[Card], Current)]
    BY DEF ClaimEvent
  <2>5. MemStep(Card) /\ (pc' = "status" => HeldBy(mem'[Card], Current) /\ injected' = injected)
    BY <1>8, <2>1, <2>2, <2>3, <2>4, MemSame, MemMoves DEF HandleClaim, Goto, BackToTop
  <2>6. FileStep
    BY <1>8, <2>1, <2>2, <2>3, <2>4, FileSame, FileMoves DEF HandleClaim, Persist
  <2>7. MemStep(Card) /\ FileStep
    BY <2>5, <2>6
  <2>8. \/ pc' = "status" /\ HeldBy(mem'[Card], Current) /\ mem[Card].state = "pending"
        \/ pc' = "top" /\ mem' = mem
    BY <1>8, <2>5 DEF HandleClaim, Goto, BackToTop
  <2>9. ServerTyped' /\ CursorTyped' /\ SequencesTyped' /\ HistoryTyped'
    BY <1>8 DEF IInv, ServerTyped, CursorTyped, CursorFile, OrphanWrite, SequencesTyped,
       HistoryTyped, Statuses, HandleClaim, Durable, Goto, BackToTop, MemStep, FileStep, Follows
  <2>10. EntriesTyped'
    BY <2>7 DEF MemStep, FileStep, EntriesTyped
  <2>11. PlaceTyped'
    BY <1>8, <2>1, <2>7, <2>8 DEF IInv, PlaceTyped, HandleClaim, Durable, Goto, BackToTop,
       MemStep, FileStep, Follows
  <2>12. PollerTyped'
    BY <1>8, <2>1, <2>7, <2>8 DEF IInv, PollerTyped, Statuses, HandleClaim, Durable, Goto,
       BackToTop, MemStep, FileStep, Follows
  <2>13. BoundsTyped'
    BY <1>8 DEF IInv, BoundsTyped, HandleClaim, Persist, Durable, ClaimEvent
  <2>14. CapacityInv'
    BY <2>7 DEF MemStep, FileStep, CapacityInv
  <2>15. PlaceInv'
    BY <1>8, <2>1, <2>7, <2>8 DEF IInv, PlaceInv, HandleClaim, Durable, Goto, BackToTop,
       MemStep, FileStep, Follows
  <2>16. KnownInv'
    BY <1>8, <2>1, <2>7, <2>8 DEF IInv, KnownInv, HandleClaim, Durable, Goto, BackToTop,
       MemStep, FileStep, Follows
  <2>17. ClaimInv'
    BY <1>8, <2>1, <2>7, <2>8 DEF IInv, ClaimInv, HeldBy, Card, Current, HandleClaim, Durable,
       Goto, BackToTop, MemStep, FileStep, Follows
  <2>18. TurnsInv'
    BY <1>8, <2>1, <2>7, <2>8 DEF IInv, TurnsInv, Open, Card, Current, HandleClaim, Durable,
       Goto, BackToTop, MemStep, FileStep, Follows
  <2>19. SettledInv'
    BY <1>8, <2>1, <2>7, <2>8 DEF IInv, SettledInv, Shut, Card, Current, Ran, HandleClaim,
       Durable, Goto, BackToTop, MemStep, FileStep, Follows
  <2>20. SequenceInv'
    BY <1>8, <2>1, <2>7, <2>8 DEF IInv, SequenceInv, Covers, EntriesTyped, Entry,
       SequencesTyped, KnownInv, PlaceInv, HandleClaim, Durable, Goto, BackToTop, MemStep,
       FileStep, Follows
  <2>21. AckInv'
    BY <1>8, <2>1, <2>7, <2>8 DEF IInv, AckInv, Owed, ShouldAck, HandleClaim, Durable, Goto,
       BackToTop, MemStep, FileStep, Follows
  <2> QED
    BY <2>9, <2>10, <2>11, <2>12, <2>13, <2>14, <2>15, <2>16, <2>17, <2>18, <2>19, <2>20,
       <2>21 DEF IInv
<1>9. CASE HandleMismatch
  <2>1. /\ Current \in batch /\ Current \in Events /\ Current \in Nat
        /\ Card \in Cards /\ Card \in known
    BY <1>9, CurrentIn DEF IInv, PlaceInv, KnownInv, Card, Events, HandleMismatch
  <2>2. EntriesTyped /\ CapacityInv /\ mem[Card] \in Entry
    BY <2>1 DEF IInv, EntriesTyped
  <2> DEFINE x == Claimed(mem[Card], Current)
             y == Released(x, Current)
  <2>3. Follows(mem[Card], x) /\ HeldBy(x, Current)
    BY <1>9, <2>1, <2>2, ClaimedFollows DEF HandleMismatch
  <2>4. x \in Entry
    BY <2>3 DEF Follows
  <2>5. Follows(x, y) /\ y.state = "pending"
    BY <2>1, <2>4, <2>3, ReleasedFollows
  <2>6. Follows(mem[Card], y)
    BY <2>2, <2>3, <2>5, FollowsTransitive
  <2>7. ClaimEvent = [mem EXCEPT ![Card] = x]
    BY DEF ClaimEvent
  <2>8. [ClaimEvent EXCEPT ![Card] = Released(ClaimEvent[Card], Current)]
          = [mem EXCEPT ![Card] = y]
    BY <2>1, <2>2, <2>7 DEF EntriesTyped
  <2>9. MemStep(Card) /\ (mem' = mem \/ mem'[Card].state = "pending")
    <3> HIDE DEF x, y
    <3> QED
      BY <1>9, <2>1, <2>2, <2>5, <2>6, <2>8, MemSame, MemMoves, ZenonT(60) DEF HandleMismatch
  <2>10. FileStep
    <3> HIDE DEF x, y
    <3> QED
      BY <1>9, <2>1, <2>2, <2>3, <2>6, <2>7, <2>8, FileSame, FileMoves DEF HandleMismatch
  <2>11. MemStep(Card) /\ FileStep /\ (mem' = mem \/ mem'[Card].state = "pending")
    BY <2>9, <2>10
  <2>12. ServerTyped' /\ CursorTyped' /\ SequencesTyped' /\ HistoryTyped'
    BY <1>9 DEF IInv, ServerTyped, CursorTyped, CursorFile, OrphanWrite, SequencesTyped,
       HistoryTyped, Statuses, HandleMismatch, Answer, BackToTop, MemStep, FileStep, Follows
  <2>13. EntriesTyped'
    BY <2>11 DEF MemStep, FileStep, EntriesTyped
  <2>14. PlaceTyped'
    BY <1>9, <2>1, <2>11 DEF IInv, PlaceTyped, HandleMismatch, Answer, BackToTop, MemStep,
       FileStep, Follows
  <2>15. PollerTyped'
    BY <1>9, <2>1, <2>11 DEF IInv, PollerTyped, Statuses, HandleMismatch, Answer, BackToTop,
       MemStep, FileStep, Follows
  <2>16. BoundsTyped'
    BY <1>9 DEF IInv, BoundsTyped, HandleMismatch
  <2>17. CapacityInv'
    BY <2>11 DEF MemStep, FileStep, CapacityInv
  <2>18. PlaceInv'
    BY <1>9, <2>1, <2>11 DEF IInv, PlaceInv, HandleMismatch, Answer, BackToTop, MemStep,
       FileStep, Follows
  <2>19. KnownInv'
    BY <1>9, <2>1, <2>11, ZenonT(60) DEF IInv, KnownInv, EntriesTyped, Entry,
       ServerTyped, SequencesTyped, HistoryTyped, Statuses, PollerTyped, PlaceInv, HandleMismatch, Answer, BackToTop,
       MemStep, FileStep, Follows
  <2>20. ClaimInv'
    BY <1>9, <2>1, <2>11 DEF IInv, ClaimInv, HeldBy, Card, Current, HandleMismatch, Answer,
       BackToTop, MemStep, FileStep, Follows
  <2>21. TurnsInv'
    BY <1>9, <2>1, <2>11 DEF IInv, TurnsInv, Open, Card, Current, HandleMismatch, Answer,
       BackToTop, MemStep, FileStep, Follows
  <2>22. SettledInv'
    BY <1>9, <2>1, <2>11 DEF IInv, SettledInv, Shut, Card, Current, Ran, HandleMismatch, Answer,
       BackToTop, MemStep, FileStep, Follows
  <2>23. SequenceInv'
    BY <1>9, <2>1, <2>11 DEF IInv, SequenceInv, Covers, EntriesTyped, Entry, SequencesTyped,
       KnownInv, PlaceInv, HandleMismatch, Answer, BackToTop, MemStep, FileStep, Follows
  <2>24. AckInv'
    BY <1>9, <2>1, <2>11 DEF IInv, AckInv, Owed, ShouldAck, HandleMismatch, Answer, BackToTop,
       MemStep, FileStep, Follows
  <2> QED
    BY <2>12, <2>13, <2>14, <2>15, <2>16, <2>17, <2>18, <2>19, <2>20, <2>21, <2>22, <2>23,
       <2>24 DEF IInv
<1>10. CASE HandleReasoning
  <2>1. /\ Current \in batch /\ Current \in Events /\ Current \in Nat
        /\ Card \in Cards /\ Card \in known
    BY <1>10, CurrentIn DEF IInv, PlaceInv, KnownInv, Card, Events, HandleReasoning
  <2>2. EntriesTyped /\ CapacityInv /\ mem[Card] \in Entry
    BY <2>1 DEF IInv, EntriesTyped
  <2> DEFINE x == Claimed(mem[Card], Current)
             y == Completed(x, Current)
  <2>3. Follows(mem[Card], x) /\ HeldBy(x, Current)
    BY <1>10, <2>1, <2>2, ClaimedFollows DEF HandleReasoning
  <2>4. x \in Entry
    BY <2>3 DEF Follows
  <2>5. Follows(x, y) /\ y.state = "completed"
    BY <2>1, <2>4, <2>3, CompletedFollows
  <2>6. Follows(mem[Card], y)
    BY <2>2, <2>3, <2>5, FollowsTransitive
  <2>7. [ClaimEvent EXCEPT ![Card] = Completed(ClaimEvent[Card], Current)]
          = [mem EXCEPT ![Card] = y]
    BY <2>1, <2>2 DEF EntriesTyped, ClaimEvent
  <2>8. MemStep(Card) /\ (mem' = mem \/ mem'[Card].state = "completed")
    <3> HIDE DEF x, y
    <3> QED
      BY <1>10, <2>1, <2>2, <2>5, <2>6, <2>7, MemSame, MemMoves DEF HandleReasoning
  <2>9. FileStep
    <3> HIDE DEF x, y
    <3> QED
      BY <1>10, <2>1, <2>2, <2>6, <2>7, FileSame, FileMoves DEF HandleReasoning
  <2>10. MemStep(Card) /\ FileStep /\ (mem' = mem \/ mem'[Card].state = "completed")
    BY <2>8, <2>9
  <2>11. ServerTyped' /\ CursorTyped' /\ SequencesTyped' /\ HistoryTyped'
    BY <1>10 DEF IInv, ServerTyped, CursorTyped, CursorFile, OrphanWrite, SequencesTyped,
       HistoryTyped, Statuses, HandleReasoning, Answer, BackToTop, MemStep, FileStep, Follows
  <2>12. EntriesTyped'
    BY <2>10 DEF MemStep, FileStep, EntriesTyped
  <2>13. PlaceTyped'
    BY <1>10, <2>1, <2>10 DEF IInv, PlaceTyped, HandleReasoning, Answer, BackToTop, MemStep,
       FileStep, Follows
  <2>14. PollerTyped'
    BY <1>10, <2>1, <2>10 DEF IInv, PollerTyped, Statuses, HandleReasoning, Answer, BackToTop,
       MemStep, FileStep, Follows
  <2>15. BoundsTyped'
    BY <1>10 DEF IInv, BoundsTyped, HandleReasoning
  <2>16. CapacityInv'
    BY <2>10 DEF MemStep, FileStep, CapacityInv
  <2>17. PlaceInv'
    BY <1>10, <2>1, <2>10 DEF IInv, PlaceInv, HandleReasoning, Answer, BackToTop, MemStep,
       FileStep, Follows
  <2>18. KnownInv'
    BY <1>10, <2>1, <2>10, ZenonT(60) DEF IInv, KnownInv, EntriesTyped, Entry,
       ServerTyped, SequencesTyped, HistoryTyped, Statuses, PollerTyped, PlaceInv, HandleReasoning, Answer, BackToTop,
       MemStep, FileStep, Follows
  <2>19. ClaimInv'
    BY <1>10, <2>1, <2>10 DEF IInv, ClaimInv, HeldBy, Card, Current, HandleReasoning, Answer,
       BackToTop, MemStep, FileStep, Follows
  <2>20. TurnsInv'
    BY <1>10, <2>1, <2>10 DEF IInv, TurnsInv, Open, Card, Current, HandleReasoning, Answer,
       BackToTop, MemStep, FileStep, Follows
  <2>21. SettledInv'
    BY <1>10, <2>1, <2>10 DEF IInv, SettledInv, Shut, Card, Current, Ran, HandleReasoning,
       Answer, BackToTop, MemStep, FileStep, Follows
  <2>22. SequenceInv'
    BY <1>10, <2>1, <2>10 DEF IInv, SequenceInv, Covers, EntriesTyped, Entry, SequencesTyped,
       KnownInv, PlaceInv, HandleReasoning, Answer, BackToTop, MemStep, FileStep, Follows
  <2>23. AckInv'
    BY <1>10, <2>1, <2>10 DEF IInv, AckInv, Owed, ShouldAck, HandleReasoning, Answer, BackToTop,
       MemStep, FileStep, Follows
  <2> QED
    BY <2>11, <2>12, <2>13, <2>14, <2>15, <2>16, <2>17, <2>18, <2>19, <2>20, <2>21, <2>22,
       <2>23 DEF IInv
<1>11. CASE Status
  <2>1. /\ Current \in batch /\ Current \in Events /\ Current \in Nat
        /\ Card \in Cards /\ Card \in known
    BY <1>11, CurrentIn DEF IInv, PlaceInv, KnownInv, Card, Events, Status
  <2>2. EntriesTyped /\ CapacityInv /\ mem[Card] \in Entry
    BY <2>1 DEF IInv, EntriesTyped
  <2> DEFINE y == NextSeq(mem[Card])
  <2>3. /\ Follows(mem[Card], y) /\ y.state = mem[Card].state
        /\ y.by = mem[Card].by /\ y.seq \in Nat
    BY <2>2, NextSeqFollows
  <2>4. [mem EXCEPT ![Card] = NextSeq(mem[Card])] = [mem EXCEPT ![Card] = y]
    OBVIOUS
  <2>5. MemStep(Card) /\ mem'[Card] = y
    <3> HIDE DEF y
    <3> QED
      BY <1>11, <2>1, <2>2, <2>3, <2>4, MemMoves DEF Status
  <2>6. FileStep /\ (mem[Card].state = "absent" \/ file' = file
                      \/ file' = Records(mem'))
    <3> HIDE DEF y
    <3> QED
      BY <1>11, <2>1, <2>2, <2>3, <2>4, FileSame, FileMoves DEF Status, Persist
  <2>7. /\ MemStep(Card) /\ FileStep /\ mem'[Card].state = mem[Card].state
        /\ mem'[Card].by = mem[Card].by
    BY <2>5, <2>6, <2>3
  <2>8. \/ sent' = sent
        \/ /\ mem[Card].state # "absent" /\ sent' = [sent EXCEPT ![Card] = mem'[Card].seq]
           /\ mem'[Card].seq \in Nat
           /\ Card \notin Reasoning => file'[Card].seq = mem'[Card].seq
    <3>1. \/ sent' = sent
          \/ /\ mem[Card].state # "absent" /\ faults' = faults
             /\ sent' = [sent EXCEPT ![Card] = mem'[Card].seq]
      BY <1>11 DEF Status, Durable
    <3>2. mem[Card].state # "absent" /\ faults' = faults => file' = Records(mem')
      BY <1>11 DEF Status, Persist, IInv, BoundsTyped
    <3>3. Card \notin Reasoning /\ file' = Records(mem') => file'[Card] = mem'[Card]
      BY <2>1 DEF Records
    <3>4. mem'[Card].seq \in Nat
      BY <2>5, <2>3
    <3> QED
      BY <3>1, <3>2, <3>3, <3>4
  <2>9. ServerTyped' /\ CursorTyped' /\ PollerTyped' /\ HistoryTyped'
    BY <1>11 DEF IInv, ServerTyped, CursorTyped, CursorFile, OrphanWrite, PollerTyped, Statuses,
       HistoryTyped, Status, Durable, Goto, MemStep, FileStep, Follows
  <2>10. EntriesTyped'
    BY <2>7 DEF MemStep, FileStep, EntriesTyped
  <2>11. PlaceTyped'
    BY <1>11, <2>1, <2>7, <2>8 DEF IInv, PlaceTyped, Status, Durable, Goto, MemStep, FileStep,
       Follows
  <2>12. SequencesTyped'
    <3>1. edit' = edit
      BY <1>11 DEF Status
    <3> QED
      BY <2>1, <2>8, <3>1 DEF IInv, SequencesTyped
  <2>13. BoundsTyped'
    BY <1>11 DEF IInv, BoundsTyped, Status, Persist
  <2>14. CapacityInv'
    BY <2>7 DEF MemStep, FileStep, CapacityInv
  <2>15. PlaceInv'
    BY <1>11, <2>1, <2>7, <2>8 DEF IInv, PlaceInv, Status, Durable, Goto, MemStep, FileStep,
       Follows
  <2>16. KnownInv'
    <3>1. \A c \in Cards \ known : mem'[c].state = "absent" /\ file'[c].state = "absent"
      BY <2>7 DEF MemStep, FileStep, Follows, IInv, KnownInv
    <3>2. UNCHANGED <<known, posted, edit, turns, outcome>> /\ batch' \subseteq batch
      BY <1>11 DEF Status, Goto, registry, server, history
    <3>3. \A c \in Cards \ known : sent'[c] = sent[c]
      BY <2>1, <2>8 DEF IInv, SequencesTyped
    <3> QED
      BY <3>1, <3>2, <3>3 DEF IInv, KnownInv
  <2>17. ClaimInv'
    BY <1>11, <2>1, <2>7, <2>8 DEF IInv, ClaimInv, HeldBy, Card, Current, Status, Durable, Goto,
       MemStep, FileStep, Follows
  <2>18. TurnsInv'
    BY <1>11, <2>1, <2>7, <2>8 DEF IInv, TurnsInv, Open, Card, Current, Status, Durable, Goto,
       MemStep, FileStep, Follows
  <2>19. SettledInv'
    BY <1>11, <2>1, <2>7, <2>8 DEF IInv, SettledInv, Shut, Card, Current, Ran, Status, Durable,
       Goto, MemStep, FileStep, Follows
  <2>20. SequenceInv'
    BY <1>11, <2>1, <2>7, <2>8 DEF IInv, SequenceInv, Covers, EntriesTyped, Entry,
       SequencesTyped, KnownInv, PlaceInv, Status, Durable, Goto, MemStep, FileStep, Follows
  <2>21. AckInv'
    BY <1>11, <2>1, <2>7, <2>8 DEF IInv, AckInv, Owed, ShouldAck, Status, Durable, Goto,
       MemStep, FileStep, Follows
  <2> QED
    BY <2>9, <2>10, <2>11, <2>12, <2>13, <2>14, <2>15, <2>16, <2>17, <2>18, <2>19, <2>20,
       <2>21 DEF IInv
<1>12. CASE Inject
  <2>1. /\ Current \in batch /\ Current \in Events /\ Current \in Nat
        /\ Card \in Cards /\ Card \in known
    BY <1>12, CurrentIn DEF IInv, PlaceInv, KnownInv, Card, Events, Inject
  <2>2. /\ EntriesTyped' /\ ServerTyped' /\ CursorTyped' /\ PollerTyped' /\ SequencesTyped'
        /\ BoundsTyped' /\ CapacityInv' /\ ClaimInv' /\ SettledInv' /\ SequenceInv' /\ AckInv'
    BY <1>12 DEF IInv, EntriesTyped, Entry, ServerTyped, CursorTyped, CursorFile, OrphanWrite,
       PollerTyped, Statuses, SequencesTyped, BoundsTyped, CapacityInv, ClaimInv, HeldBy, Card,
       Current, SettledInv, Shut, Ran, SequenceInv, Covers, AckInv, Owed, ShouldAck, Inject
  <2>3. PlaceTyped'
    BY <1>12, <2>1 DEF IInv, PlaceTyped, Inject
  <2>4. HistoryTyped'
    BY <1>12, <2>1 DEF IInv, HistoryTyped, Statuses, Inject
  <2>5. PlaceInv'
    BY <1>12, <2>1 DEF IInv, PlaceInv, Inject
  <2>6. KnownInv'
    BY <1>12, <2>1 DEF IInv, KnownInv, EntriesTyped, Entry, ServerTyped, SequencesTyped,
       HistoryTyped, Statuses, PollerTyped, PlaceInv, Inject
  <2>7. TurnsInv'
    BY <1>12, <2>1 DEF IInv, TurnsInv, Open, Card, Current, EntriesTyped, Entry, PlaceTyped,
       BoundsTyped, HistoryTyped, Statuses, ClaimInv, HeldBy, PlaceInv, Inject
  <2> QED
    BY <2>2, <2>3, <2>4, <2>5, <2>6, <2>7 DEF IInv
<1>13. CASE DispatchReturns
  <2>1. /\ Current \in batch /\ Current \in Events /\ Current \in Nat
        /\ Card \in Cards /\ Card \in known
    BY <1>13, CurrentIn DEF IInv, PlaceInv, KnownInv, Card, Events, DispatchReturns
  <2>2. EntriesTyped /\ CapacityInv /\ mem[Card] \in Entry
    BY <2>1 DEF IInv, EntriesTyped
  <2> DEFINE x == Completed(mem[Card], Current)
             y == Released(mem[Card], Current)
  <2>3. mem[Card].state # "absent" => HeldBy(mem[Card], Current)
    BY <1>13 DEF DispatchReturns, IInv, ClaimInv
  <2>4. /\ Follows(mem[Card], x) /\ Follows(mem[Card], y)
        /\ mem[Card].state # "absent" => x.state = "completed" /\ y.state = "pending"
    BY <2>1, <2>2, <2>3, CompletedFollows, ReleasedFollows
  <2>5. /\ [mem EXCEPT ![Card] = Completed(mem[Card], Current)] = [mem EXCEPT ![Card] = x]
        /\ [mem EXCEPT ![Card] = Released(mem[Card], Current)] = [mem EXCEPT ![Card] = y]
    OBVIOUS
  <2> HIDE DEF x, y
  <2>6. PICK z \in {x, y} :
          /\ mem' = [mem EXCEPT ![Card] = z]
          /\ file' = file \/ file' = Records(mem')
          /\ verdict' \in Ran => z = x /\ file' = Records(mem')
          /\ z = x \/ ~injected
          /\ pc' \in {"top", "final"} /\ (pc' = "top" => verdict' = "none")
          /\ ~injected'
    <3>1. ASSUME NEW m, NEW v, Settle(m, v), v \notin Ran \/ m = [mem EXCEPT ![Card] = x]
          PROVE  /\ mem' = m /\ (file' = file \/ file' = Records(mem'))
                 /\ verdict' \in Ran => m = [mem EXCEPT ![Card] = x] /\ file' = Records(mem')
                 /\ pc' \in {"top", "final"} /\ (pc' = "top" => verdict' = "none")
                 /\ ~injected'
      BY <3>1 DEF Settle, Persist, Durable, BackToTop, Ran, IInv, BoundsTyped
    <3>2. CASE injected /\ Settle([mem EXCEPT ![Card] = x], "completed")
      BY <3>1, <3>2
    <3>3. CASE ~injected /\ Settle([mem EXCEPT ![Card] = x], "failed")
      BY <3>1, <3>3
    <3>4. CASE ~injected /\ Settle([mem EXCEPT ![Card] = y], "ignored")
      <4>1. mem' = [mem EXCEPT ![Card] = y] /\ (file' = file \/ file' = Records(mem'))
            /\ verdict' \notin Ran
            /\ pc' \in {"top", "final"} /\ (pc' = "top" => verdict' = "none") /\ ~injected'
        BY <3>4 DEF Settle, Persist, Durable, BackToTop, Ran
      <4> QED
        BY <3>4, <4>1
    <3> QED
      BY <1>13, <2>5, <3>2, <3>3, <3>4 DEF DispatchReturns
  <2>7. MemStep(Card) /\ mem'[Card] = z
    <3>1. Follows(mem[Card], z)
      BY <2>4, <2>6
    <3> QED
      BY <2>6, <3>1, <2>1, <2>2, MemMoves
  <2>8. FileStep
    <3>1. Follows(mem[Card], z)
      BY <2>4, <2>6
    <3> QED
      BY <2>6, <3>1, <2>1, <2>2, FileSame, FileMoves
  <2>9. file' = Records(mem') =>
          file'[Card].state = (IF Card \in Reasoning THEN "absent" ELSE mem'[Card].state)
    BY <2>1 DEF Records, Absent
  <2>10. mem[Card].state = "absent" => mem'[Card].state = "absent"
    BY <2>7, <2>1 DEF MemStep, Follows
  <2>11. mem[Card].state # "absent"
            => mem'[Card].state = (IF z = x THEN "completed" ELSE "pending")
    BY <2>6, <2>7, <2>4
  <2>12. verdict' \in Ran => mem'[Card].state \in {"completed", "absent"}
                            /\ file'[Card].state \in {"completed", "absent"}
    BY <2>6, <2>9, <2>10, <2>11
  <2>13. /\ MemStep(Card) /\ FileStep
         /\ \/ mem[Card].state = "absent"
            \/ mem'[Card].state = "completed"
            \/ mem'[Card].state = "pending" /\ ~injected
         /\ verdict' \in Ran => mem'[Card].state \in {"completed", "absent"}
                             /\ file'[Card].state \in {"completed", "absent"}
         /\ pc' \in {"top", "final"} /\ ~injected'
    <3>1. \/ mem[Card].state = "absent"
          \/ mem'[Card].state = "completed"
          \/ mem'[Card].state = "pending" /\ ~injected
      BY <2>6, <2>11
    <3>2. pc' \in {"top", "final"} /\ ~injected'
      BY <2>6
    <3> QED
      BY <2>7, <2>8, <2>12, <3>1, <3>2
  <2>14. ServerTyped' /\ CursorTyped' /\ SequencesTyped' /\ HistoryTyped'
    BY <1>13 DEF IInv, ServerTyped, CursorTyped, CursorFile, OrphanWrite, SequencesTyped,
       HistoryTyped, Statuses, DispatchReturns, Settle, BackToTop, Durable, MemStep, FileStep,
       Follows
  <2>15. EntriesTyped'
    BY <2>13 DEF MemStep, FileStep, EntriesTyped
  <2>16. PlaceTyped'
    BY <1>13, <2>1, <2>13 DEF IInv, PlaceTyped, DispatchReturns, Settle, BackToTop, Durable,
       MemStep, FileStep, Follows
  <2>17. PollerTyped'
    BY <1>13, <2>1, <2>13 DEF IInv, PollerTyped, Statuses, DispatchReturns, Settle, BackToTop,
       Durable, MemStep, FileStep, Follows
  <2>18. BoundsTyped'
    BY <1>13 DEF IInv, BoundsTyped, DispatchReturns, Settle, Persist
  <2>19. CapacityInv'
    BY <2>13 DEF MemStep, FileStep, CapacityInv
  <2>20. PlaceInv'
    BY <1>13, <2>1, <2>13 DEF IInv, PlaceInv, DispatchReturns, Settle, BackToTop, Durable,
       MemStep, FileStep, Follows
  <2>21. KnownInv'
    <3>1. \A c \in Cards \ known : mem'[c].state = "absent" /\ file'[c].state = "absent"
      BY <2>13 DEF MemStep, FileStep, Follows, IInv, KnownInv
    <3>2. UNCHANGED <<known, posted, edit, turns, outcome>> /\ batch' \subseteq batch
      BY <1>13 DEF DispatchReturns, Settle, BackToTop, registry, server, history
    <3>3. \A c \in Cards \ known : sent'[c] = sent[c]
      BY <1>13 DEF DispatchReturns, Settle
    <3> QED
      BY <3>1, <3>2, <3>3 DEF IInv, KnownInv
  <2>22. ClaimInv'
    BY <1>13, <2>1, <2>13 DEF IInv, ClaimInv, HeldBy, Card, Current, DispatchReturns, Settle,
       BackToTop, Durable, MemStep, FileStep, Follows
  <2>23. TurnsInv'
    BY <1>13, <2>1, <2>13 DEF IInv, TurnsInv, Open, Card, Current, DispatchReturns, Settle,
       BackToTop, Durable, MemStep, FileStep, Follows
  <2>24. SettledInv'
    BY <1>13, <2>1, <2>13 DEF IInv, SettledInv, Shut, Card, Current, Ran, DispatchReturns,
       Settle, BackToTop, Durable, MemStep, FileStep, Follows
  <2>25. SequenceInv'
    BY <1>13, <2>1, <2>13, SMTT(30) DEF IInv, SequenceInv, Covers, EntriesTyped, Entry,
       SequencesTyped, KnownInv, PlaceInv, DispatchReturns, Settle, BackToTop, Durable,
       MemStep, FileStep, Follows
  <2>26. AckInv'
    BY <1>13, <2>1, <2>13 DEF IInv, AckInv, Owed, ShouldAck, DispatchReturns, Settle, BackToTop,
       Durable, MemStep, FileStep, Follows
  <2> QED
    BY <2>14, <2>15, <2>16, <2>17, <2>18, <2>19, <2>20, <2>21, <2>22, <2>23, <2>24, <2>25,
       <2>26 DEF IInv
<1>14. ASSUME NEW exhausted \in BOOLEAN, DispatchRaises(exhausted)
      PROVE  IInv'
  <2>1. /\ Current \in batch /\ Current \in Events /\ Current \in Nat
        /\ Card \in Cards /\ Card \in known
    BY <1>14, CurrentIn DEF IInv, PlaceInv, KnownInv, Card, Events, DispatchRaises
  <2>2. EntriesTyped /\ CapacityInv /\ mem[Card] \in Entry
    BY <2>1 DEF IInv, EntriesTyped
  <2> DEFINE x == Completed(mem[Card], Current)
             y == Released(mem[Card], Current)
  <2>3. mem[Card].state # "absent" => HeldBy(mem[Card], Current)
    BY <1>14 DEF DispatchRaises, IInv, ClaimInv
  <2>4. /\ Follows(mem[Card], x) /\ Follows(mem[Card], y)
        /\ mem[Card].state # "absent" => x.state = "completed" /\ y.state = "pending"
    BY <2>1, <2>2, <2>3, CompletedFollows, ReleasedFollows
  <2>5. /\ [mem EXCEPT ![Card] = Completed(mem[Card], Current)] = [mem EXCEPT ![Card] = x]
        /\ [mem EXCEPT ![Card] = Released(mem[Card], Current)] = [mem EXCEPT ![Card] = y]
    OBVIOUS
  <2> HIDE DEF x, y
  <2>6. PICK z \in {x, y} :
          /\ mem' = [mem EXCEPT ![Card] = z]
          /\ file' = file \/ file' = Records(mem')
          /\ verdict' \in Ran => z = x /\ file' = Records(mem')
          /\ z = x \/ ~injected
          /\ pc' \in {"top", "final"} /\ (pc' = "top" => verdict' = "none")
          /\ ~injected'
    <3>1. CASE Settle([mem EXCEPT ![Card] = x], "dead_letter")
      BY <3>1, <1>14 DEF DispatchRaises, Settle, Persist, Durable, BackToTop, Ran, IInv, BoundsTyped
    <3>2. CASE mem' = [mem EXCEPT ![Card] = y] /\ Persist(mem') /\ BackToTop
      <4>1. verdict' \notin Ran /\ pc' = "top" /\ verdict' = "none" /\ ~injected'
            /\ (file' = file \/ file' = Records(mem')) /\ ~injected
        BY <3>2, <1>14 DEF Persist, BackToTop, Ran, DispatchRaises
      <4> QED
        BY <3>2, <4>1
    <3> QED
      BY <1>14, <2>5, <3>1, <3>2 DEF DispatchRaises
  <2>7. MemStep(Card) /\ mem'[Card] = z
    <3>1. Follows(mem[Card], z)
      BY <2>4, <2>6
    <3> QED
      BY <2>6, <3>1, <2>1, <2>2, MemMoves
  <2>8. FileStep
    <3>1. Follows(mem[Card], z)
      BY <2>4, <2>6
    <3> QED
      BY <2>6, <3>1, <2>1, <2>2, FileSame, FileMoves
  <2>9. file' = Records(mem') =>
          file'[Card].state = (IF Card \in Reasoning THEN "absent" ELSE mem'[Card].state)
    BY <2>1 DEF Records, Absent
  <2>10. mem[Card].state = "absent" => mem'[Card].state = "absent"
    BY <2>7, <2>1 DEF MemStep, Follows
  <2>11. mem[Card].state # "absent"
            => mem'[Card].state = (IF z = x THEN "completed" ELSE "pending")
    BY <2>6, <2>7, <2>4
  <2>12. verdict' \in Ran => mem'[Card].state \in {"completed", "absent"}
                            /\ file'[Card].state \in {"completed", "absent"}
    BY <2>6, <2>9, <2>10, <2>11
  <2>13. /\ MemStep(Card) /\ FileStep
         /\ \/ mem[Card].state = "absent"
            \/ mem'[Card].state = "completed"
            \/ mem'[Card].state = "pending" /\ ~injected
         /\ verdict' \in Ran => mem'[Card].state \in {"completed", "absent"}
                             /\ file'[Card].state \in {"completed", "absent"}
         /\ pc' \in {"top", "final"} /\ ~injected'
    <3>1. \/ mem[Card].state = "absent"
          \/ mem'[Card].state = "completed"
          \/ mem'[Card].state = "pending" /\ ~injected
      BY <2>6, <2>11
    <3>2. pc' \in {"top", "final"} /\ ~injected'
      BY <2>6
    <3> QED
      BY <2>7, <2>8, <2>12, <3>1, <3>2
  <2>14. ServerTyped' /\ CursorTyped' /\ SequencesTyped' /\ HistoryTyped'
    BY <1>14 DEF IInv, ServerTyped, CursorTyped, CursorFile, OrphanWrite, SequencesTyped,
       HistoryTyped, Statuses, DispatchRaises, Settle, BackToTop, Durable, MemStep, FileStep,
       Follows
  <2>15. EntriesTyped'
    BY <2>13 DEF MemStep, FileStep, EntriesTyped
  <2>16. PlaceTyped'
    BY <1>14, <2>1, <2>13 DEF IInv, PlaceTyped, DispatchRaises, Settle, BackToTop, Durable,
       MemStep, FileStep, Follows
  <2>17. PollerTyped'
    BY <1>14, <2>1, <2>13 DEF IInv, PollerTyped, Statuses, DispatchRaises, Settle, BackToTop,
       Durable, MemStep, FileStep, Follows
  <2>18. BoundsTyped'
    BY <1>14 DEF IInv, BoundsTyped, DispatchRaises, Settle, Persist
  <2>19. CapacityInv'
    BY <2>13 DEF MemStep, FileStep, CapacityInv
  <2>20. PlaceInv'
    BY <1>14, <2>1, <2>13 DEF IInv, PlaceInv, DispatchRaises, Settle, BackToTop, Durable,
       MemStep, FileStep, Follows
  <2>21. KnownInv'
    <3>1. \A c \in Cards \ known : mem'[c].state = "absent" /\ file'[c].state = "absent"
      BY <2>13 DEF MemStep, FileStep, Follows, IInv, KnownInv
    <3>2. UNCHANGED <<known, posted, edit, turns, outcome>> /\ batch' \subseteq batch
      BY <1>14 DEF DispatchRaises, Settle, BackToTop, registry, server, history
    <3>3. \A c \in Cards \ known : sent'[c] = sent[c]
      BY <1>14 DEF DispatchRaises, Settle
    <3> QED
      BY <3>1, <3>2, <3>3 DEF IInv, KnownInv
  <2>22. ClaimInv'
    BY <1>14, <2>1, <2>13 DEF IInv, ClaimInv, HeldBy, Card, Current, DispatchRaises, Settle,
       BackToTop, Durable, MemStep, FileStep, Follows
  <2>23. TurnsInv'
    BY <1>14, <2>1, <2>13 DEF IInv, TurnsInv, Open, Card, Current, DispatchRaises, Settle,
       BackToTop, Durable, MemStep, FileStep, Follows
  <2>24. SettledInv'
    BY <1>14, <2>1, <2>13 DEF IInv, SettledInv, Shut, Card, Current, Ran, DispatchRaises, Settle,
       BackToTop, Durable, MemStep, FileStep, Follows
  <2>25. SequenceInv'
    BY <1>14, <2>1, <2>13 DEF IInv, SequenceInv, Covers, EntriesTyped, Entry, SequencesTyped,
       KnownInv, PlaceInv, DispatchRaises, Settle, BackToTop, Durable, MemStep, FileStep,
       Follows
  <2>26. AckInv'
    BY <1>14, <2>1, <2>13 DEF IInv, AckInv, Owed, ShouldAck, DispatchRaises, Settle, BackToTop,
       Durable, MemStep, FileStep, Follows
  <2> QED
    BY <2>14, <2>15, <2>16, <2>17, <2>18, <2>19, <2>20, <2>21, <2>22, <2>23, <2>24, <2>25,
       <2>26 DEF IInv
<1>15. CASE Save
  <2>1. /\ Current \in batch /\ Current \in Events /\ Current \in Nat
        /\ Card \in Cards /\ Card \in known
    BY <1>15, CurrentIn DEF IInv, PlaceInv, KnownInv, Card, Events, Save
  <2>2. ServerTyped' /\ SequencesTyped' /\ CapacityInv' /\ SequenceInv'
    BY <1>15 DEF IInv, ServerTyped, SequencesTyped, CapacityInv, SequenceInv, Covers, Save,
       ShouldAck
  <2>14. BoundsTyped'
    <3>1. faults' \in 0..MaxFaults
      BY <1>15, ReadingIsBounded DEF IInv, Save, Advances
    <3> QED
      BY <1>15, <3>1 DEF IInv, BoundsTyped, Save, bounds
  <2>3. EntriesTyped'
    BY <1>15, <2>1 DEF IInv, EntriesTyped, Entry, Save, ShouldAck
  <2>4. CursorTyped'
    BY <1>15, <2>1 DEF IInv, CursorTyped, CursorFile, OrphanWrite, Save, ShouldAck
  <2>5. PlaceTyped'
    BY <1>15, <2>1 DEF IInv, PlaceTyped, Save, ShouldAck
  <2>6. PollerTyped'
    BY <1>15, <2>1 DEF IInv, PollerTyped, Statuses, Save, ShouldAck
  <2>7. HistoryTyped'
    BY <1>15, <2>1 DEF IInv, HistoryTyped, Statuses, PollerTyped, CursorTyped, CursorFile,
       OrphanWrite, Save, ShouldAck
  <2>8. PlaceInv'
    BY <1>15, <2>1 DEF IInv, PlaceInv, Save, ShouldAck
  <2>9. KnownInv'
    BY <1>15, <2>1 DEF IInv, KnownInv, Save, ShouldAck
  <2>10. ClaimInv'
    BY <1>15, <2>1 DEF IInv, ClaimInv, HeldBy, Card, Current, Save, ShouldAck
  <2>11. TurnsInv'
    BY <1>15, <2>1 DEF IInv, TurnsInv, Open, Card, Current, Save, ShouldAck
  <2>12. SettledInv'
    BY <1>15, <2>1 DEF IInv, SettledInv, Shut, Card, Current, Ran, Save, ShouldAck
  <2>13. AckInv'
    <3>1. pending = 0 /\ \A e \in Events : ~Owed(e)
      BY <1>15 DEF IInv, AckInv, Save, Events
    <3>2. \A e \in Events : Owed(e)' => e = Current /\ ShouldAck(verdict)
      BY <1>15, <3>1, <2>1 DEF Owed, Save, server, IInv, HistoryTyped
    <3>3. /\ disk'.event = Current /\ pending' = disk'.pending /\ orphans' = orphans
          /\ disk'.pending = (IF ShouldAck(verdict) THEN Current ELSE 0)
      BY <1>15 DEF Save
    <3>4. pc' \in {"ack", "top", "next"} /\ (pc' = "ack" <=> pending' # 0)
      BY <1>15 DEF Save
    <3>5. \A e \in Events : Owed(e)' => e = disk'.pending /\ e = pending'
      BY <3>2, <3>3
    <3>6. disk'.pending <= disk'.event
      BY <3>3, <2>1
    <3> QED
      BY <3>3, <3>4, <3>5, <3>6 DEF IInv, AckInv
  <2> QED
    BY <2>2, <2>3, <2>4, <2>5, <2>6, <2>7, <2>8, <2>9, <2>10, <2>11, <2>12, <2>13,
       <2>14 DEF IInv
<1>16. CASE SaveFails
  <2>1. /\ Current \in batch /\ Current \in Events /\ Current \in Nat
        /\ Card \in Cards /\ Card \in known
    BY <1>16, CurrentIn DEF IInv, PlaceInv, KnownInv, Card, Events, SaveFails
  <2>2. /\ EntriesTyped' /\ ServerTyped' /\ CursorTyped' /\ SequencesTyped' /\ HistoryTyped'
        /\ CapacityInv' /\ SequenceInv'
    BY <1>16 DEF IInv, EntriesTyped, Entry, ServerTyped, CursorTyped, CursorFile, OrphanWrite,
       SequencesTyped, HistoryTyped, Statuses, CapacityInv, SequenceInv, Covers, SaveFails,
       BackToTop
  <2>3. PlaceTyped'
    BY <1>16, <2>1 DEF IInv, PlaceTyped, SaveFails, BackToTop
  <2>4. PollerTyped'
    BY <1>16, <2>1 DEF IInv, PollerTyped, Statuses, SaveFails, BackToTop
  <2>5. BoundsTyped'
    BY <1>16, <2>1 DEF IInv, BoundsTyped, SaveFails, BackToTop
  <2>6. PlaceInv'
    BY <1>16, <2>1 DEF IInv, PlaceInv, SaveFails, BackToTop
  <2>7. KnownInv'
    BY <1>16, <2>1 DEF IInv, KnownInv, SaveFails, BackToTop
  <2>8. ClaimInv'
    BY <1>16, <2>1 DEF IInv, ClaimInv, HeldBy, Card, Current, SaveFails, BackToTop
  <2>9. TurnsInv'
    BY <1>16, <2>1 DEF IInv, TurnsInv, Open, Card, Current, SaveFails, BackToTop
  <2>10. SettledInv'
    BY <1>16, <2>1 DEF IInv, SettledInv, Shut, Card, Current, Ran, SaveFails, BackToTop
  <2>11. AckInv'
    BY <1>16, <2>1 DEF IInv, AckInv, Owed, ShouldAck, SaveFails, BackToTop
  <2> QED
    BY <2>2, <2>3, <2>4, <2>5, <2>6, <2>7, <2>8, <2>9, <2>10, <2>11 DEF IInv
<1>17. CASE AckSucceeds
  <2>1. pending \in Events
    BY <1>17 DEF IInv, AckInv, PollerTyped, AckSucceeds
  <2>2. /\ EntriesTyped' /\ CursorTyped' /\ PollerTyped' /\ SequencesTyped' /\ HistoryTyped'
        /\ BoundsTyped' /\ CapacityInv' /\ KnownInv' /\ SequenceInv'
    BY <1>17 DEF IInv, EntriesTyped, Entry, CursorTyped, CursorFile, OrphanWrite, PollerTyped,
       Statuses, SequencesTyped, HistoryTyped, BoundsTyped, CapacityInv, KnownInv, SequenceInv,
       Covers, AckSucceeds, Goto
  <2>3. ServerTyped'
    BY <1>17, <2>1 DEF IInv, ServerTyped, AckSucceeds, Goto
  <2>4. PlaceTyped'
    BY <1>17, <2>1 DEF IInv, PlaceTyped, AckSucceeds, Goto
  <2>5. PlaceInv'
    BY <1>17, <2>1 DEF IInv, PlaceInv, AckSucceeds, Goto
  <2>6. ClaimInv'
    BY <1>17, <2>1 DEF IInv, ClaimInv, HeldBy, Card, Current, AckSucceeds, Goto
  <2>7. TurnsInv'
    BY <1>17, <2>1 DEF IInv, TurnsInv, Open, Card, Current, AckSucceeds, Goto
  <2>8. SettledInv'
    BY <1>17, <2>1 DEF IInv, SettledInv, Shut, Card, Current, Ran, AckSucceeds, Goto
  <2>9. AckInv'
    BY <1>17, <2>1 DEF IInv, AckInv, Owed, ShouldAck, AckSucceeds, Goto
  <2> QED
    BY <2>2, <2>3, <2>4, <2>5, <2>6, <2>7, <2>8, <2>9 DEF IInv
<1>18. ASSUME NEW reached \in BOOLEAN, AckFails(reached)
      PROVE  IInv'
  <2>1. pending \in Events
    BY <1>18 DEF IInv, AckInv, PollerTyped, AckFails
  <2>2. /\ EntriesTyped' /\ CursorTyped' /\ SequencesTyped' /\ BoundsTyped' /\ CapacityInv'
        /\ SequenceInv'
    BY <1>18 DEF IInv, EntriesTyped, Entry, CursorTyped, CursorFile, OrphanWrite,
       SequencesTyped, BoundsTyped, CapacityInv, SequenceInv, Covers, AckFails
  <2>3. ServerTyped'
    BY <1>18, <2>1 DEF IInv, ServerTyped, AckFails
  <2>4. PlaceTyped'
    BY <1>18, <2>1 DEF IInv, PlaceTyped, AckFails
  <2>5. PollerTyped'
    <3>1. failures' \in Nat /\ (batch' = batch \/ batch' = {})
          /\ UNCHANGED <<cursor, pending, verdict>>
      BY <1>18 DEF AckFails, IInv, PollerTyped
    <3> QED
      BY <3>1 DEF IInv, PollerTyped
  <2>6. HistoryTyped'
    BY <1>18, <2>1 DEF IInv, HistoryTyped, Statuses, AckFails
  <2>7. PlaceInv'
    BY <1>18, <2>1 DEF IInv, PlaceInv, AckFails
  <2>8. KnownInv'
    BY <1>18, <2>1 DEF IInv, KnownInv, AckFails
  <2>9. ClaimInv'
    BY <1>18, <2>1 DEF IInv, ClaimInv, HeldBy, Card, Current, AckFails
  <2>10. TurnsInv'
    BY <1>18, <2>1 DEF IInv, TurnsInv, Open, Card, Current, AckFails
  <2>11. SettledInv'
    BY <1>18, <2>1 DEF IInv, SettledInv, Shut, Card, Current, Ran, AckFails
  <2>12. AckInv'
    BY <1>18, <2>1 DEF IInv, AckInv, Owed, ShouldAck, AckFails
  <2> QED
    BY <2>2, <2>3, <2>4, <2>5, <2>6, <2>7, <2>8, <2>9, <2>10, <2>11, <2>12 DEF IInv
<1>19. CASE ClearPending
  <2>1. /\ ServerTyped' /\ SequencesTyped' /\ HistoryTyped' /\ CapacityInv'
        /\ KnownInv' /\ SequenceInv'
    BY <1>19 DEF IInv, ServerTyped, SequencesTyped, HistoryTyped, Statuses, CapacityInv,
       KnownInv, SequenceInv, Covers, ClearPending
  <2>11. BoundsTyped'
    <3>1. faults' \in 0..MaxFaults
      BY <1>19, ReadingIsBounded DEF IInv, ClearPending, Advances
    <3> QED
      BY <1>19, <3>1 DEF IInv, BoundsTyped, ClearPending, bounds
  <2>2. EntriesTyped'
    BY <1>19 DEF IInv, EntriesTyped, Entry, ClearPending
  <2>3. CursorTyped'
    BY <1>19 DEF IInv, CursorTyped, CursorFile, OrphanWrite, PollerTyped, Statuses, BoundsTyped,
       ClearPending
  <2>4. PlaceTyped'
    BY <1>19 DEF IInv, PlaceTyped, ClearPending
  <2>5. PollerTyped'
    BY <1>19 DEF IInv, PollerTyped, Statuses, ClearPending
  <2>6. PlaceInv'
    BY <1>19 DEF IInv, PlaceInv, ClearPending
  <2>7. ClaimInv'
    BY <1>19 DEF IInv, ClaimInv, HeldBy, Card, Current, ClearPending
  <2>8. TurnsInv'
    BY <1>19 DEF IInv, TurnsInv, Open, Card, Current, ClearPending
  <2>9. SettledInv'
    BY <1>19 DEF IInv, SettledInv, Shut, Card, Current, Ran, ClearPending
  <2>10. AckInv'
    <3>1. \A e \in Events : ~Owed(e)
      BY <1>19 DEF IInv, AckInv, Owed, ClearPending
    <3>2. \A e \in Events : ~Owed(e)'
      BY <1>19, <3>1 DEF Owed, ClearPending, server, history
    <3>3. disk'.pending = 0 /\ 0 <= disk'.event /\ pending' = 0 /\ orphans' = orphans
      BY <1>19 DEF ClearPending, IInv, PollerTyped, Events
    <3>4. pc' \in {"fetch", "next"}
      BY <1>19 DEF ClearPending
    <3> QED
      BY <3>2, <3>3, <3>4 DEF IInv, AckInv
  <2> QED
    BY <2>1, <2>2, <2>3, <2>4, <2>5, <2>6, <2>7, <2>8, <2>9, <2>10, <2>11 DEF IInv
<1>20. CASE ClearFails
  <2>1. /\ EntriesTyped' /\ ServerTyped' /\ CursorTyped' /\ SequencesTyped' /\ HistoryTyped'
        /\ CapacityInv' /\ SequenceInv'
    BY <1>20 DEF IInv, EntriesTyped, Entry, ServerTyped, CursorTyped, CursorFile, OrphanWrite,
       SequencesTyped, HistoryTyped, Statuses, CapacityInv, SequenceInv, Covers, ClearFails,
       BackToTop
  <2>2. PlaceTyped'
    BY <1>20 DEF IInv, PlaceTyped, ClearFails, BackToTop
  <2>3. PollerTyped'
    BY <1>20 DEF IInv, PollerTyped, Statuses, ClearFails, BackToTop
  <2>4. BoundsTyped'
    BY <1>20 DEF IInv, BoundsTyped, ClearFails, BackToTop
  <2>5. PlaceInv'
    BY <1>20 DEF IInv, PlaceInv, ClearFails, BackToTop
  <2>6. KnownInv'
    BY <1>20 DEF IInv, KnownInv, ClearFails, BackToTop
  <2>7. ClaimInv'
    BY <1>20 DEF IInv, ClaimInv, HeldBy, Card, Current, ClearFails, BackToTop
  <2>8. TurnsInv'
    BY <1>20 DEF IInv, TurnsInv, Open, Card, Current, ClearFails, BackToTop
  <2>9. SettledInv'
    BY <1>20 DEF IInv, SettledInv, Shut, Card, Current, Ran, ClearFails, BackToTop
  <2>10. AckInv'
    BY <1>20 DEF IInv, AckInv, Owed, ShouldAck, ClearFails, BackToTop
  <2> QED
    BY <2>1, <2>2, <2>3, <2>4, <2>5, <2>6, <2>7, <2>8, <2>9, <2>10 DEF IInv
<1>21. CASE StopPoller
  <2>1. pc \in {"status", "dispatch"} => Card \in Cards /\ Current \in Int
    BY CurrentIn DEF IInv, PlaceInv, Events
  <2>2. EntriesTyped /\ CapacityInv
    BY DEF IInv
  <2>3. ASSUME pc \in {"status", "dispatch"} PROVE MemStep(Card) /\ FileStep
    <3> DEFINE y == Released(mem[Card], Current)
    <3>1. Follows(mem[Card], y)
      BY <2>3, <2>1, <2>2, ReleasedFollows DEF EntriesTyped
    <3>2. mem' = [mem EXCEPT ![Card] = y] /\ (file' = file \/ file' = Records(mem'))
      BY <1>21, <2>3 DEF StopPoller, Persist
    <3> HIDE DEF y
    <3> QED
      BY <2>3, <2>1, <2>2, <3>1, <3>2, MemMoves, FileMoves, FileSame
  <2>4. ASSUME pc \notin {"status", "dispatch"} PROVE MemStep(Card) /\ FileStep
    BY <1>21, <2>4, <2>2, MemSame, FileSame DEF StopPoller
  <2>5. MemStep(Card) /\ FileStep
    BY <2>3, <2>4
  <2>6. ASSUME pc = "save"
       PROVE  Current \in Events
    BY <2>6, CurrentIn DEF IInv, PlaceInv
  <2>7. stops + 1 \in 1..MaxStops
    BY <1>21 DEF IInv, BoundsTyped, StopPoller
  <2>8. PICK stage \in {"check", "replace"} :
         orphans' = orphans \union
           CASE pc = "save" -> {[stop |-> stops + 1, stage |-> stage, event |-> Current,
                                 pending |-> IF ShouldAck(verdict) THEN Current ELSE 0]}
             [] pc = "clear" -> {[stop |-> stops + 1, stage |-> stage,
                                  event |-> cursor, pending |-> 0]}
             [] OTHER -> {}
    BY <1>21 DEF StopPoller
  <2>9. ASSUME NEW w \in orphans'
        PROVE  w \in OrphanWrite /\ w.pending <= w.event
    <3>1. CASE w \in orphans
      BY <3>1 DEF IInv, CursorTyped, AckInv
    <3>2. CASE pc = "save" /\ w \notin orphans
      <4>1. PICK n \in {0, Current} : w = [stop |-> stops + 1, stage |-> stage,
                                           event |-> Current, pending |-> n]
        BY <2>8, <3>2
      <4> QED
        BY <4>1, <2>6, <2>7, <3>2 DEF OrphanWrite, Events
    <3>3. CASE pc = "clear" /\ w \notin orphans
      <4>1. w = [stop |-> stops + 1, stage |-> stage, event |-> cursor, pending |-> 0]
        BY <2>8, <3>3
      <4> QED
        BY <4>1, <2>7 DEF OrphanWrite, Events, IInv, PollerTyped
    <3>4. CASE pc \notin {"save", "clear"} /\ w \notin orphans
      BY <2>8, <3>4
    <3> QED
      BY <3>1, <3>2, <3>3, <3>4
  <2>10. ServerTyped' /\ SequencesTyped' /\ HistoryTyped'
    BY <1>21 DEF IInv, ServerTyped, SequencesTyped, HistoryTyped, Statuses, StopPoller, MemStep,
       FileStep, Follows
  <2>11. EntriesTyped'
    BY <2>5 DEF MemStep, FileStep, EntriesTyped
  <2>12. CursorTyped'
    <3>1. disk' = disk
      BY <1>21 DEF StopPoller
    <3> QED
      BY <2>9, <3>1 DEF IInv, CursorTyped
  <2>13. PlaceTyped'
    BY <1>21, <2>1, <2>5 DEF IInv, PlaceTyped, StopPoller, MemStep, FileStep, Follows
  <2>14. PollerTyped'
    BY <1>21, <2>1, <2>5 DEF IInv, PollerTyped, Statuses, StopPoller, MemStep, FileStep, Follows
  <2>15. BoundsTyped'
    BY <1>21 DEF IInv, BoundsTyped, StopPoller, Persist
  <2>16. CapacityInv'
    BY <2>5 DEF MemStep, FileStep, CapacityInv
  <2>17. PlaceInv'
    BY <1>21, <2>1, <2>5 DEF IInv, PlaceInv, StopPoller, MemStep, FileStep, Follows
  <2>18. KnownInv'
    BY <1>21, <2>1, <2>5 DEF IInv, KnownInv, StopPoller, MemStep, FileStep, Follows
  <2>19. ClaimInv'
    BY <1>21, <2>1, <2>5 DEF IInv, ClaimInv, HeldBy, Card, Current, StopPoller, MemStep,
       FileStep, Follows
  <2>20. TurnsInv'
    BY <1>21, <2>1, <2>5 DEF IInv, TurnsInv, Open, Card, Current, EntriesTyped, Entry,
       PlaceTyped, BoundsTyped, HistoryTyped, Statuses, ClaimInv, HeldBy, PlaceInv, StopPoller,
       MemStep, FileStep, Follows
  <2>21. SettledInv'
    BY <1>21, <2>1, <2>5 DEF IInv, SettledInv, Shut, Card, Current, Ran, StopPoller, MemStep,
       FileStep, Follows
  <2>22. SequenceInv'
    BY <1>21, <2>1, <2>5 DEF IInv, SequenceInv, Covers, EntriesTyped, Entry, SequencesTyped,
       KnownInv, PlaceInv, StopPoller, MemStep, FileStep, Follows
  <2>23. AckInv'
    <3>1. /\ UNCHANGED <<disk, outcome, acked, abandoned, lapsed>> /\ pc' = "off"
      BY <1>21 DEF StopPoller, server, history
    <3> QED
      BY <2>9, <3>1 DEF IInv, AckInv, Owed
  <2> QED
    BY <2>10, <2>11, <2>12, <2>13, <2>14, <2>15, <2>16, <2>17, <2>18, <2>19, <2>20, <2>21,
       <2>22,
       <2>23 DEF IInv
<1>22. CASE Crash
  <2>1. ServerTyped' /\ HistoryTyped'
    BY <1>22 DEF IInv, ServerTyped, HistoryTyped, Statuses, Crash, Absent
  <2>2. EntriesTyped'
    BY <1>22 DEF IInv, EntriesTyped, Entry, Crash, Absent
  <2>3. CursorTyped'
    BY <1>22 DEF IInv, CursorTyped, CursorFile, OrphanWrite, Crash, Absent
  <2>4. PlaceTyped'
    BY <1>22 DEF IInv, PlaceTyped, Crash, Absent
  <2>5. PollerTyped'
    BY <1>22 DEF IInv, PollerTyped, Statuses, Crash, Absent
  <2>6. SequencesTyped'
    BY <1>22 DEF IInv, SequencesTyped, Crash, Absent
  <2>7. BoundsTyped'
    BY <1>22 DEF IInv, BoundsTyped, Crash, Absent
  <2>8. CapacityInv'
    <3>1. Live(mem') = {} /\ file' = file
      BY <1>22 DEF Crash, Live, Absent
    <3>2. Fits(mem')
      BY <3>1, FS_EmptySet DEF Fits
    <3> QED
      BY <3>1, <3>2 DEF IInv, CapacityInv
  <2>9. PlaceInv'
    BY <1>22 DEF IInv, PlaceInv, Crash, Absent
  <2>10. KnownInv'
    BY <1>22 DEF IInv, KnownInv, Crash, Absent
  <2>11. ClaimInv'
    BY <1>22 DEF IInv, ClaimInv, HeldBy, Card, Current, Crash, Absent
  <2>12. TurnsInv'
    BY <1>22 DEF IInv, TurnsInv, Open, Card, Current, EntriesTyped, Entry, PlaceTyped,
       BoundsTyped, HistoryTyped, Statuses, ClaimInv, HeldBy, PlaceInv, Crash, Absent
  <2>13. SettledInv'
    BY <1>22 DEF IInv, SettledInv, Shut, Card, Current, Ran, Crash, Absent
  <2>14. SequenceInv'
    BY <1>22 DEF IInv, SequenceInv, Covers, EntriesTyped, Entry, SequencesTyped, KnownInv,
       PlaceInv, Crash, Absent
  <2>15. AckInv'
    BY <1>22 DEF IInv, AckInv, Owed, ShouldAck, Crash, Absent
  <2> QED
    BY <2>1, <2>2, <2>3, <2>4, <2>5, <2>6, <2>7, <2>8, <2>9, <2>10, <2>11, <2>12, <2>13, <2>14,
       <2>15 DEF IInv
<1>23. CASE Press
  <2>1. /\ EntriesTyped' /\ CursorTyped' /\ PlaceTyped' /\ PollerTyped' /\ SequencesTyped'
        /\ HistoryTyped' /\ BoundsTyped' /\ CapacityInv' /\ PlaceInv' /\ ClaimInv'
        /\ TurnsInv' /\ SettledInv' /\ SequenceInv' /\ AckInv'
    BY <1>23 DEF IInv, EntriesTyped, Entry, CursorTyped, CursorFile, OrphanWrite, PlaceTyped,
       PollerTyped, Statuses, SequencesTyped, HistoryTyped, BoundsTyped, CapacityInv, PlaceInv,
       ClaimInv, HeldBy, Card, Current, TurnsInv, Open, SettledInv, Shut, Ran, SequenceInv,
       Covers, AckInv, Owed, ShouldAck, Press
  <2>2. ServerTyped'
    BY <1>23 DEF IInv, ServerTyped, Press
  <2>3. KnownInv'
    <3>1. \A e \in Events : e <= posted + 1 => CardOf[e] \in known
      <4> SUFFICES ASSUME NEW e \in Events, e <= posted + 1
                   PROVE  CardOf[e] \in known
        OBVIOUS
      <4>1. e <= posted \/ e = posted + 1
        BY DEF Events, IInv, ServerTyped
      <4> QED
        BY <1>23, <4>1 DEF Press, IInv, KnownInv
    <3>2. \A e \in Events : e <= posted => e <= posted + 1
      BY DEF Events, IInv, ServerTyped
    <3>3. /\ posted' = posted + 1
          /\ UNCHANGED <<mem, file, known, edit, sent, turns, batch, outcome>>
      BY <1>23 DEF Press, registry, poller, history
    <3> QED
      BY <3>1, <3>2, <3>3 DEF IInv, KnownInv, PollerTyped
  <2> QED
    BY <2>1, <2>2, <2>3 DEF IInv
<1>24. ASSUME NEW w \in orphans, OrphanChecks(w)
      PROVE  IInv'
  <2>1. /\ EntriesTyped' /\ ServerTyped' /\ PlaceTyped' /\ PollerTyped' /\ SequencesTyped'
        /\ HistoryTyped' /\ CapacityInv' /\ PlaceInv' /\ KnownInv'
        /\ ClaimInv' /\ TurnsInv' /\ SettledInv' /\ SequenceInv'
    BY <1>24 DEF IInv, EntriesTyped, Entry, ServerTyped, PlaceTyped, PollerTyped, Statuses,
       SequencesTyped, HistoryTyped, CapacityInv, PlaceInv, KnownInv, ClaimInv,
       HeldBy, Card, Current, TurnsInv, Open, SettledInv, Shut, Ran, SequenceInv, Covers,
       OrphanChecks
  <2>2. CursorTyped'
    BY <1>24 DEF IInv, CursorTyped, CursorFile, OrphanWrite, OrphanChecks
  <2>3. AckInv'
    BY <1>24 DEF IInv, AckInv, Owed, ShouldAck, PollerTyped, Statuses, CursorTyped, CursorFile,
       OrphanWrite, HistoryTyped, PlaceTyped, OrphanChecks
  <2>4. BoundsTyped'
    <3>1. faults' \in 0..MaxFaults
      BY <1>24, ReadingIsBounded DEF IInv, OrphanChecks, Advances
    <3> QED
      BY <1>24, <3>1 DEF IInv, BoundsTyped, OrphanChecks, bounds
  <2> QED
    BY <2>1, <2>2, <2>3, <2>4 DEF IInv
<1>25. ASSUME NEW w \in orphans, OrphanReplaces(w)
      PROVE  IInv'
  <2>1. /\ EntriesTyped' /\ ServerTyped' /\ PlaceTyped' /\ PollerTyped' /\ SequencesTyped'
        /\ BoundsTyped' /\ CapacityInv' /\ PlaceInv' /\ KnownInv' /\ ClaimInv' /\ TurnsInv'
        /\ SettledInv' /\ SequenceInv'
    BY <1>25 DEF IInv, EntriesTyped, Entry, ServerTyped, PlaceTyped, PollerTyped, Statuses,
       SequencesTyped, BoundsTyped, CapacityInv, PlaceInv, KnownInv, ClaimInv, HeldBy, Card,
       Current, TurnsInv, Open, SettledInv, Shut, Ran, SequenceInv, Covers, OrphanReplaces
  <2>2. CursorTyped'
    BY <1>25 DEF IInv, CursorTyped, CursorFile, OrphanWrite, OrphanReplaces
  <2>3. HistoryTyped'
    BY <1>25 DEF IInv, HistoryTyped, Statuses, PollerTyped, CursorTyped, CursorFile,
       OrphanWrite, OrphanReplaces
  <2>4. AckInv'
    <3>1. /\ disk'.pending = w.pending /\ disk'.event = w.event /\ orphans' \subseteq orphans
          /\ UNCHANGED <<pc, pending, acked, abandoned, outcome>>
          /\ lapsed' = lapsed \union ({disk.pending} \ {0, w.pending})
      BY <1>25 DEF OrphanReplaces, poller, server
    <3>2. \A e \in Events : Owed(e)' => Owed(e) /\ (e = disk.pending => e = w.pending)
      BY <3>1 DEF Owed, Events
    <3> QED
      BY <3>1, <3>2 DEF IInv, AckInv
  <2> QED
    BY <2>1, <2>2, <2>3, <2>4 DEF IInv
<1>26. ASSUME NEW c \in Cards, Register(c)
      PROVE  IInv'
  <2>1. pc \in {"status", "dispatch", "final", "save"} => Card \in known
    BY CurrentIn DEF IInv, PlaceInv, KnownInv, Card
  <2>2. /\ EntriesTyped /\ CapacityInv
        /\ c \notin known /\ mem[c].state = "absent" /\ file[c].state = "absent"
    BY <1>26 DEF IInv, KnownInv, Register
  <2>3. NewEntry \in Entry /\ Absent \in Entry /\ NewEntry.state = "pending"
        /\ NewEntry.seq = 0 /\ Absent.state = "absent"
    BY DEF NewEntry, Absent, Entry
  <2>4. ASSUME Cardinality(Live(mem)) < MaxSessions, mem' = [mem EXCEPT ![c] = NewEntry]
       PROVE  /\ mem' \in [Cards -> Entry] /\ Fits(mem') /\ mem'[c] = NewEntry
              /\ \A d \in Cards \ {c} : mem'[d] = mem[d]
    <3>1. mem' \in [Cards -> Entry] /\ Live(mem') \subseteq Live(mem) \union {c}
      BY <2>4, <2>2, <2>3 DEF EntriesTyped, Live
    <3>2. c \notin Live(mem) /\ IsFiniteSet(Live(mem))
      BY <2>2 DEF Live, CapacityInv, Fits
    <3>3. IsFiniteSet(Live(mem) \union {c})
          /\ Cardinality(Live(mem) \union {c}) = Cardinality(Live(mem)) + 1
      BY <3>2, FS_AddElement
    <3>4. Cardinality(Live(mem)) \in Nat
      BY <3>2, FS_CardinalityType
    <3>5. IsFiniteSet(Live(mem')) /\ Cardinality(Live(mem')) <= Cardinality(Live(mem)) + 1
      BY <3>1, <3>3, FS_Subset
    <3>6. Cardinality(Live(mem')) \in Nat
      BY <3>5, FS_CardinalityType
    <3>7. Fits(mem')
      BY <2>4, <3>4, <3>5, <3>6 DEF Fits
    <3>8. mem'[c] = NewEntry /\ \A d \in Cards \ {c} : mem'[d] = mem[d]
      BY <2>4, <2>2 DEF EntriesTyped
    <3> QED
      BY <3>1, <3>7, <3>8
  <2>5. ASSUME NEW d \in Cards, mem[d].state = "completed",
              mem' = [mem EXCEPT ![d] = Absent, ![c] = NewEntry]
       PROVE  /\ mem' \in [Cards -> Entry] /\ Fits(mem') /\ mem'[c] = NewEntry
              /\ \A b \in Cards \ {c} : \/ mem'[b] = mem[b]
                                        \/ mem[b].state = "completed" /\ mem'[b] = Absent
    <3>1. d # c
      BY <2>5, <2>2
    <3>2. mem' \in [Cards -> Entry] /\ mem'[c] = NewEntry /\ mem'[d] = Absent
          /\ \A b \in Cards \ {c, d} : mem'[b] = mem[b]
      BY <2>5, <2>2, <2>3, <3>1 DEF EntriesTyped
    <3>3. Live(mem') \subseteq (Live(mem) \ {d}) \union {c}
      BY <3>2, <2>3 DEF Live
    <3>4. d \in Live(mem) /\ c \notin Live(mem) \ {d} /\ IsFiniteSet(Live(mem))
      BY <2>5, <2>2 DEF Live, CapacityInv, Fits
    <3>5. IsFiniteSet(Live(mem) \ {d})
          /\ Cardinality(Live(mem) \ {d}) = Cardinality(Live(mem)) - 1
      BY <3>4, FS_RemoveElement
    <3>6. IsFiniteSet((Live(mem) \ {d}) \union {c})
          /\ Cardinality((Live(mem) \ {d}) \union {c}) = Cardinality(Live(mem) \ {d}) + 1
      BY <3>4, <3>5, FS_AddElement
    <3>7. Cardinality(Live(mem)) \in Nat
      BY <3>4, FS_CardinalityType
    <3>8. /\ IsFiniteSet(Live(mem'))
          /\ Cardinality(Live(mem')) <= Cardinality((Live(mem) \ {d}) \union {c})
      BY <3>3, <3>6, FS_Subset
    <3>9. Cardinality(Live(mem')) \in Nat
      BY <3>8, FS_CardinalityType
    <3>10. Fits(mem')
      BY <2>2, <3>5, <3>6, <3>7, <3>8, <3>9 DEF Fits, CapacityInv
    <3> QED
      BY <2>5, <3>2, <3>10
  <2>6. ASSUME mem' = mem
       PROVE  mem' \in [Cards -> Entry] /\ Fits(mem')
    BY <2>6, <2>2, MemSame DEF MemStep
  <2>7. /\ mem' \in [Cards -> Entry] /\ Fits(mem')
        /\ mem'[c] = NewEntry \/ mem'[c] = mem[c]
        /\ \A d \in Cards \ {c} : \/ mem'[d] = mem[d]
                                  \/ mem[d].state = "completed" /\ mem'[d] = Absent
    <3>1. Cardinality(Live(mem)) \in Nat
      BY <2>2, FS_CardinalityType DEF CapacityInv, Fits
    <3> QED
      BY <1>26, <2>4, <2>5, <2>6, <3>1 DEF Register
  <2>8. file' = file \/ file' = Records(mem')
    BY <1>26 DEF Register, Persist
  <2>9. /\ file' \in [Cards -> Entry] /\ Fits(file')
        /\ \A d \in Cards : \/ file'[d] = file[d] \/ file'[d] = mem'[d]
                            \/ (d \in Reasoning /\ file'[d] = Absent)
    <3>1. CASE file' = file
      BY <3>1, <2>2, FileSame DEF FileStep
    <3>2. CASE file' = Records(mem')
      <4>1. Fits(file')
        BY <3>2, <2>7, FitsRecords
      <4>2. file' \in [Cards -> Entry]
        BY <3>2, <2>7, <2>3 DEF Records
      <4>3. \A d \in Cards : file'[d] = IF d \in Reasoning THEN Absent ELSE mem'[d]
        BY <3>2 DEF Records
      <4> QED
        BY <4>1, <4>2, <4>3
    <3> QED
      BY <2>8, <3>1, <3>2
  <2>10. /\ CursorTyped' /\ PlaceTyped' /\ PollerTyped' /\ SequencesTyped' /\ HistoryTyped'
         /\ AckInv'
    BY <1>26 DEF IInv, CursorTyped, CursorFile, OrphanWrite, PlaceTyped, PollerTyped, Statuses,
       SequencesTyped, HistoryTyped, AckInv, Owed, ShouldAck, Register
  <2>11. EntriesTyped'
    BY <2>7, <2>9 DEF EntriesTyped
  <2>12. ServerTyped'
    BY <1>26, <2>1, <2>2, <2>3, <2>7, <2>9 DEF IInv, ServerTyped, Register
  <2>13. BoundsTyped'
    BY <1>26 DEF IInv, BoundsTyped, Register, Persist
  <2>14. CapacityInv'
    BY <2>7, <2>9 DEF CapacityInv
  <2>15. PlaceInv'
    BY <1>26, <2>1, <2>2, <2>3, <2>7, <2>9 DEF IInv, PlaceInv, Register
  <2>16. KnownInv'
    BY <1>26, <2>1, <2>2, <2>3, <2>7, <2>9 DEF IInv, KnownInv, Register
  <2>17. ClaimInv'
    <3>1. pc' = pc /\ batch' = batch
      BY <1>26 DEF Register, poller
    <3>2. pc \in {"status", "dispatch"} => Card \in Cards /\ mem[Card] = mem'[Card]
      BY <2>1, <2>2, <2>7 DEF IInv, ClaimInv, HeldBy, ServerTyped
    <3> QED
      BY <3>1, <3>2 DEF IInv, ClaimInv, Card, Current
  <2>18. TurnsInv'
    <3>1. UNCHANGED <<up, pc, batch, injected, turns, crashes, stops>>
      BY <1>26 DEF Register, poller, history, bounds
    <3>2. turns[c] = 0 /\ 0 <= crashes + stops
      BY <2>2 DEF IInv, KnownInv, BoundsTyped
    <3>3. \A d \in Cards : Open(d)' => Open(d) \/ d = c
      BY <2>3, <2>7, <3>1 DEF Open, Card, Current
    <3> QED
      BY <3>1, <3>2, <3>3 DEF IInv, TurnsInv
  <2>19. SettledInv'
    <3>1. \A d \in known : d \in Cards /\ Shut(d) => Shut(d)'
      BY <2>2, <2>3, <2>7, <2>9 DEF Shut
    <3>2. \A e \in Events : outcome[e] \in Ran => CardOf[e] \in known /\ CardOf[e] \in Cards
      BY DEF IInv, KnownInv, Ran
    <3>3. pc \in {"final", "save"} => Card \in known /\ Card \in Cards
      BY <2>1 DEF IInv, ServerTyped
    <3>4. UNCHANGED <<pc, verdict, outcome, batch>>
      BY <1>26 DEF Register, poller, history
    <3> QED
      BY <3>1, <3>2, <3>3, <3>4 DEF IInv, SettledInv, Card, Current
  <2>20. SequenceInv'
    BY <1>26, <2>1, <2>2, <2>3, <2>7, <2>9 DEF IInv, SequenceInv, Covers, EntriesTyped, Entry,
       SequencesTyped, KnownInv, PlaceInv, Register
  <2> QED
    BY <2>10, <2>11, <2>12, <2>13, <2>14, <2>15, <2>16, <2>17, <2>18, <2>19, <2>20 DEF IInv
<1>27. ASSUME NEW c \in Cards, Expire(c)
      PROVE  IInv'
  <2>1. /\ mem' = [mem EXCEPT ![c] = Absent] /\ file' = [file EXCEPT ![c] = Absent]
       /\ Absent \in Entry /\ Absent.state = "absent"
    BY <1>27 DEF Expire, Absent, Entry
  <2>2. /\ mem' \in [Cards -> Entry] /\ file' \in [Cards -> Entry]
        /\ mem'[c].state = "absent" /\ file'[c].state = "absent"
        /\ \A d \in Cards \ {c} : mem'[d] = mem[d] /\ file'[d] = file[d]
    BY <2>1 DEF IInv, EntriesTyped
  <2>3. Live(mem') \subseteq Live(mem) /\ Live(file') \subseteq Live(file)
    BY <2>2 DEF Live
  <2>4. Fits(mem') /\ Fits(file')
    <3>1. Fits(mem')
      BY <2>3, FitsSubset DEF IInv, CapacityInv
    <3>2. Fits(file')
      BY <2>3, FitsSubset DEF IInv, CapacityInv
    <3> QED
      BY <3>1, <3>2
  <2>5. /\ ServerTyped' /\ CursorTyped' /\ PlaceTyped' /\ PollerTyped' /\ SequencesTyped'
        /\ HistoryTyped' /\ BoundsTyped' /\ AckInv'
    BY <1>27 DEF IInv, ServerTyped, CursorTyped, CursorFile, OrphanWrite, PlaceTyped,
       PollerTyped, Statuses, SequencesTyped, HistoryTyped, BoundsTyped, AckInv, Owed,
       ShouldAck, Expire
  <2>6. EntriesTyped'
    BY <2>2 DEF EntriesTyped
  <2>7. CapacityInv'
    BY <2>4 DEF CapacityInv
  <2>8. PlaceInv'
    BY <1>27, <2>2 DEF IInv, PlaceInv, Expire
  <2>9. KnownInv'
    BY <1>27, <2>2 DEF IInv, KnownInv, Expire
  <2>10. ClaimInv'
    BY <1>27, <2>2 DEF IInv, ClaimInv, HeldBy, Card, Current, Expire
  <2>11. TurnsInv'
    BY <1>27, <2>2 DEF IInv, TurnsInv, Open, Card, Current, Expire
  <2>12. SettledInv'
    BY <1>27, <2>2 DEF IInv, SettledInv, Shut, Card, Current, Ran, Expire
  <2>13. SequenceInv'
    BY <1>27, <2>2 DEF IInv, SequenceInv, Covers, Expire
  <2> QED
    BY <2>5, <2>6, <2>7, <2>8, <2>9, <2>10, <2>11, <2>12, <2>13 DEF IInv
<1>28. ASSUME NEW c \in Editable, EditClaim(c)
      PROVE  IInv'
  <2>1. pc \in {"status", "dispatch", "final", "save"} => Card \in Cards /\ Current \in Nat
    BY CurrentIn DEF IInv, PlaceInv, Events
  <2>2. EntriesTyped /\ CapacityInv /\ c \in Cards /\ mem[c] \in Entry /\ mem[c].state = "pending"
    BY <1>28 DEF IInv, EntriesTyped, EditClaim
  <2> DEFINE y == EditClaimed(mem[c])
  <2>3. /\ Follows(mem[c], y) /\ y.seq = mem[c].seq + 1 /\ y.state = "processing" /\ y.by < 0
        /\ y.seq \in Nat
    BY <2>2, EditClaimedFollows DEF Entry
  <2>4. \/ mem' = mem /\ edit' = edit /\ file' = file
       \/ /\ mem' = [mem EXCEPT ![c] = y] /\ edit' = [edit EXCEPT ![c] = mem'[c].seq]
          /\ file' = Records(mem') /\ c \notin Reasoning
    <3>1. c \notin Reasoning /\ Persist([mem EXCEPT ![c] = y])
          /\ (IF Durable THEN mem' = [mem EXCEPT ![c] = y]
                              /\ edit' = [edit EXCEPT ![c] = [mem EXCEPT ![c] = y][c].seq]
              ELSE UNCHANGED <<mem, edit>>)
      BY <1>28 DEF EditClaim
    <3> HIDE DEF y
    <3>2. CASE Durable
      <4>1. file' = Records([mem EXCEPT ![c] = y])
        BY <3>1, <3>2 DEF Persist, Durable, IInv, BoundsTyped
      <4>2. /\ mem' = [mem EXCEPT ![c] = y]
            /\ edit' = [edit EXCEPT ![c] = [mem EXCEPT ![c] = y][c].seq]
        BY <3>1, <3>2
      <4> QED
        BY <3>1, <4>1, <4>2
    <3>3. CASE ~Durable
      BY <3>1, <3>3 DEF Persist, Durable
    <3> QED
      BY <3>2, <3>3
  <2>5. /\ MemStep(c) /\ FileStep
        /\ \/ mem' = mem /\ edit' = edit
           \/ /\ mem'[c].state = "processing" /\ mem'[c].by < 0 /\ mem'[c].seq \in Nat
              /\ edit' = [edit EXCEPT ![c] = mem'[c].seq]
              /\ file'[c].seq = mem'[c].seq
    <3> HIDE DEF y
    <3> QED
      BY <2>4, <2>2, <2>3, MemSame, FileSame, MemMoves, FileMoves
  <2>6. /\ ServerTyped' /\ CursorTyped' /\ PlaceTyped' /\ PollerTyped' /\ HistoryTyped'
        /\ AckInv'
    BY <1>28 DEF IInv, ServerTyped, CursorTyped, CursorFile, OrphanWrite, PlaceTyped,
       PollerTyped, Statuses, HistoryTyped, AckInv, Owed, ShouldAck, EditClaim, MemStep,
       FileStep, Follows
  <2>7. EntriesTyped'
    BY <2>5 DEF MemStep, FileStep, EntriesTyped
  <2>8. SequencesTyped'
    <3>1. sent' = sent
      BY <1>28 DEF EditClaim
    <3> QED
      BY <2>2, <2>5, <3>1 DEF IInv, SequencesTyped
  <2>9. BoundsTyped'
    BY <1>28 DEF IInv, BoundsTyped, EditClaim, Persist
  <2>10. CapacityInv'
    BY <2>5 DEF MemStep, FileStep, CapacityInv
  <2>11. PlaceInv'
    BY <1>28, <2>1, <2>2, <2>5 DEF IInv, PlaceInv, EditClaim, MemStep, FileStep, Follows
  <2>12. KnownInv'
    BY <1>28, <2>1, <2>2, <2>5 DEF IInv, KnownInv, EntriesTyped, Entry, ServerTyped,
       SequencesTyped, HistoryTyped, Statuses, PollerTyped, PlaceInv, EditClaim, MemStep,
       FileStep, Follows
  <2>13. ClaimInv'
    BY <1>28, <2>1, <2>2, <2>5 DEF IInv, ClaimInv, HeldBy, Card, Current, EditClaim, MemStep,
       FileStep, Follows
  <2>14. TurnsInv'
    BY <1>28, <2>1, <2>2, <2>5 DEF IInv, TurnsInv, Open, Card, Current, EditClaim, MemStep,
       FileStep, Follows
  <2>15. SettledInv'
    BY <1>28, <2>1, <2>2, <2>5 DEF IInv, SettledInv, Shut, Card, Current, Ran, EditClaim,
       MemStep, FileStep, Follows
  <2>16. SequenceInv'
    BY <1>28, <2>1, <2>2, <2>5 DEF IInv, SequenceInv, Covers, EntriesTyped, Entry,
       SequencesTyped, KnownInv, PlaceInv, EditClaim, MemStep, FileStep, Follows
  <2> QED
    BY <2>6, <2>7, <2>8, <2>9, <2>10, <2>11, <2>12, <2>13, <2>14, <2>15, <2>16 DEF IInv
<1>29. ASSUME NEW c \in Editable, EditSends(c)
      PROVE  IInv'
  <2>1. /\ EntriesTyped' /\ ServerTyped' /\ CursorTyped' /\ PlaceTyped' /\ PollerTyped'
        /\ HistoryTyped' /\ BoundsTyped' /\ CapacityInv' /\ PlaceInv' /\ ClaimInv'
        /\ TurnsInv' /\ SettledInv' /\ AckInv'
    BY <1>29 DEF IInv, EntriesTyped, Entry, ServerTyped, CursorTyped, CursorFile, OrphanWrite,
       PlaceTyped, PollerTyped, Statuses, HistoryTyped, BoundsTyped, CapacityInv, PlaceInv,
       ClaimInv, HeldBy, Card, Current, TurnsInv, Open, SettledInv, Shut, Ran, AckInv, Owed,
       ShouldAck, EditSends
  <2>2. SequencesTyped'
    BY <1>29 DEF IInv, SequencesTyped, EditSends
  <2>3. KnownInv'
    BY <1>29 DEF IInv, KnownInv, EditSends
  <2>4. SequenceInv'
    BY <1>29 DEF IInv, SequenceInv, Covers, EditSends
  <2> QED
    BY <2>1, <2>2, <2>3, <2>4 DEF IInv
<1>30. ASSUME NEW c \in Editable, EditCancelled(c)
      PROVE  IInv'
  <2>1. /\ EntriesTyped' /\ ServerTyped' /\ CursorTyped' /\ PlaceTyped' /\ PollerTyped'
        /\ HistoryTyped' /\ BoundsTyped' /\ CapacityInv' /\ ClaimInv' /\ TurnsInv'
        /\ SettledInv' /\ AckInv'
    BY <1>30 DEF IInv, EntriesTyped, Entry, ServerTyped, CursorTyped, CursorFile, OrphanWrite,
       PlaceTyped, PollerTyped, Statuses, HistoryTyped, BoundsTyped, CapacityInv, ClaimInv,
       HeldBy, Card, Current, TurnsInv, Open, SettledInv, Shut, Ran, AckInv, Owed, ShouldAck,
       EditCancelled
  <2>2. SequencesTyped'
    BY <1>30 DEF IInv, SequencesTyped, EditCancelled
  <2>3. PlaceInv'
    BY <1>30 DEF IInv, PlaceInv, EditCancelled
  <2>4. KnownInv'
    BY <1>30 DEF IInv, KnownInv, EditCancelled
  <2>5. SequenceInv'
    BY <1>30 DEF IInv, SequenceInv, Covers, EntriesTyped, Entry, SequencesTyped, KnownInv,
       PlaceInv, EditCancelled
  <2> QED
    BY <2>1, <2>2, <2>3, <2>4, <2>5 DEF IInv
<1>31. ASSUME NEW c \in Editable, NEW final \in BOOLEAN, EditEnds(c, final)
      PROVE  IInv'
  <2>1. pc \in {"status", "dispatch", "final", "save"} => Card \in Cards /\ Current \in Nat
    BY CurrentIn DEF IInv, PlaceInv, Events
  <2>2. EntriesTyped /\ CapacityInv /\ c \in Cards /\ mem[c] \in Entry /\ -edit[c] \in Int
        /\ -edit[c] < 0
    BY <1>31 DEF IInv, EntriesTyped, SequencesTyped, EditEnds
  <2>3. PICK y \in {Completed(mem[c], -edit[c]), Released(mem[c], -edit[c])} :
         mem' = [mem EXCEPT ![c] = y] /\ (file' = file \/ file' = Records(mem'))
    BY <1>31 DEF EditEnds, Persist
  <2>4. Follows(mem[c], y) /\ (y = mem[c] \/ HeldBy(mem[c], -edit[c]))
    BY <2>3, <2>2, CompletedFollows, ReleasedFollows
  <2>5. /\ MemStep(c) /\ FileStep
        /\ mem' = mem \/ (mem[c].state = "processing" /\ mem[c].by < 0)
    <3>1. MemStep(c) /\ FileStep
      BY <2>3, <2>2, <2>4, MemMoves, FileSame, FileMoves
    <3>2. y = mem[c] => mem' = mem
      BY <2>3 DEF IInv, EntriesTyped
    <3>3. HeldBy(mem[c], -edit[c]) => mem[c].state = "processing" /\ mem[c].by < 0
      BY <2>2 DEF HeldBy
    <3> QED
      BY <3>1, <3>2, <3>3, <2>4
  <2>6. /\ ServerTyped' /\ CursorTyped' /\ PlaceTyped' /\ PollerTyped' /\ HistoryTyped'
        /\ AckInv'
    BY <1>31 DEF IInv, ServerTyped, CursorTyped, CursorFile, OrphanWrite, PlaceTyped,
       PollerTyped, Statuses, HistoryTyped, AckInv, Owed, ShouldAck, EditEnds, MemStep,
       FileStep, Follows
  <2>7. EntriesTyped'
    BY <2>5 DEF MemStep, FileStep, EntriesTyped
  <2>8. SequencesTyped'
    BY <1>31, <2>1, <2>2, <2>5 DEF IInv, SequencesTyped, EditEnds, MemStep, FileStep, Follows
  <2>9. BoundsTyped'
    BY <1>31 DEF IInv, BoundsTyped, EditEnds, Persist
  <2>10. CapacityInv'
    BY <2>5 DEF MemStep, FileStep, CapacityInv
  <2>11. PlaceInv'
    BY <1>31, <2>1, <2>2, <2>5 DEF IInv, PlaceInv, EditEnds, MemStep, FileStep, Follows
  <2>12. KnownInv'
    BY <1>31, <2>1, <2>2, <2>5 DEF IInv, KnownInv, EditEnds, MemStep, FileStep, Follows
  <2>13. ClaimInv'
    BY <1>31, <2>1, <2>2, <2>5 DEF IInv, ClaimInv, HeldBy, Card, Current, EditEnds, MemStep,
       FileStep, Follows
  <2>14. TurnsInv'
    BY <1>31, <2>1, <2>2, <2>5 DEF IInv, TurnsInv, Open, Card, Current, EditEnds, MemStep,
       FileStep, Follows
  <2>15. SettledInv'
    BY <1>31, <2>1, <2>2, <2>5 DEF IInv, SettledInv, Shut, Card, Current, Ran, EditEnds,
       MemStep, FileStep, Follows
  <2>16. SequenceInv'
    BY <1>31, <2>1, <2>2, <2>5 DEF IInv, SequenceInv, Covers, EntriesTyped, Entry,
       SequencesTyped, KnownInv, PlaceInv, EditEnds, MemStep, FileStep, Follows
  <2> QED
    BY <2>6, <2>7, <2>8, <2>9, <2>10, <2>11, <2>12, <2>13, <2>14, <2>15, <2>16 DEF IInv
<1>32. CASE UNCHANGED vars
  BY <1>32 DEF IInv, EntriesTyped, Entry, ServerTyped, CursorTyped, CursorFile, OrphanWrite,
     PlaceTyped, PollerTyped, Statuses, SequencesTyped, HistoryTyped, BoundsTyped, CapacityInv,
     PlaceInv, KnownInv, ClaimInv, HeldBy, Card, Current, TurnsInv, Open, SettledInv, Shut, Ran,
     SequenceInv, Covers, AckInv, Owed, ShouldAck, vars
<1> QED
  BY <1>1, <1>2, <1>3, <1>4, <1>5, <1>6, <1>7, <1>8, <1>9, <1>10, <1>11, <1>12, <1>13, <1>14,
     <1>15, <1>16, <1>17, <1>18, <1>19, <1>20, <1>21, <1>22, <1>23, <1>24, <1>25, <1>26, <1>27,
     <1>28, <1>29, <1>30, <1>31, <1>32 DEF Next, Deliver

-----------------------------------------------------------------------------
(* The theorems.                                                           *)

\* All parts of the invariant hold of every state.
THEOREM InvariantHolds == Spec => []IInv
  BY InitInvariant, StepInvariant, PTL DEF Spec

\* The registry never holds more than _max_sessions cards, whatever is sent,
\* expires, is restored or is made room for (register, attach_persistence), and
\* every cursor on disk or on its way to it is one of an event.
THEOREM TypeCorrect == Spec => []TypeOK
<1>1. IInv => TypeOK
  BY DEF IInv, TypeOK, EntriesTyped, ServerTyped, CursorTyped, PlaceTyped, PollerTyped,
         SequencesTyped, HistoryTyped, BoundsTyped, CapacityInv, Fits
<1> QED
  BY <1>1, InvariantHolds, PTL

\* A card gets at most one turn, and another one only for each crash and each stop
\* of the poller: failed writes, failed acks, duplicates, other users' presses and
\* edits never make it run again (claim, complete, release, claim_edit).
THEOREM OneTurn == Spec => []OneTurnPerIncarnation
<1>1. IInv => OneTurnPerIncarnation
  BY DEF IInv, TurnsInv, OneTurnPerIncarnation
<1> QED
  BY <1>1, InvariantHolds, PTL

\* What the server has been told is on disk: the outcome of an acknowledged event
\* (poll_once saves, then acknowledges) and the sequence of every edit it was sent
\* (claim_edit and update_status persist before they send).
THEOREM ToldIsOnDisk == Spec => []DiskIsAsTold
<1>1. IInv => AckedIsSettled
  BY DEF IInv, SettledInv, Shut, Ran, ServerTyped, AckedIsSettled
<1>2. IInv => SentSequenceIsDurable
  BY DEF IInv, SequenceInv, Covers, SentSequenceIsDurable
<1> QED
  BY <1>1, <1>2, InvariantHolds, PTL DEF DiskIsAsTold

\* An ack that is owed is on disk until the server has it, it was given up, or the
\* late write of a cancelled poller took its place (_flush_pending_ack, _save_sync).
THEOREM AckRemembered == Spec => []AckNeverForgotten
<1>1. IInv => AckNeverForgotten
  BY DEF IInv, AckInv, Owed, AckNeverForgotten
<1> QED
  BY <1>1, InvariantHolds, PTL
=============================================================================
